---- MODULE Spec2Model ----
(***************************************************************************)
(* talk/base/physicalsocketserver.cc: PhysicalSocket, SocketDispatcher,    *)
(* EventDispatcher / Signaler and PhysicalSocketServer (Add, Remove, Wait) *)
(* as a state machine.  The operating system (descriptor table, socket     *)
(* queues, select) is the environment; application handlers are the        *)
(* nondeterministic callers of the socket API.                             *)
(***************************************************************************)
EXTENDS Integers, Sequences, FiniteSets, TLC

\* ------------------------------------------------------------------ bounds
NSock == 2          \* SocketDispatcher objects 1..NSock
MaxFd == 2          \* socket descriptors 1..MaxFd (0 is the wakeup pipe)
MaxRx == 1          \* bytes / datagrams / pending connections queued per descriptor
NRes == 2           \* AsyncResolver objects 1..NRes
MaxId == 3          \* largest value next_id_ is followed to
NSig == 2           \* signal numbers 1..NSig can be caught; NSig + 1 cannot
MaxPipe == 2        \* bytes the pipe of PosixSignalHandler holds before write fails

\* ------------------------------------------------------------------ names
INVALID_SOCKET == -1
SOCKET_ERROR == -1
signal_wakeup_ == 0
PipeFd == 0
PosixSignalDispatcher == NSock + 1   \* the object signal_dispatcher_ points to
SignalFd == MaxFd + 1                 \* PosixSignalHandler::afd_[0]
Signums == 1..(NSig + 1)
Uncatchable == {NSig + 1}             \* sigaction fails for these (SIGKILL, SIGSTOP)

Socks == 1..NSock
Res == 1..NRes
Disps == {signal_wakeup_} \cup Socks
SockFds == 1..MaxFd
Fds == {PipeFd} \cup SockFds

DE_READ == "READ"
DE_WRITE == "WRITE"
DE_CONNECT == "CONNECT"
DE_CLOSE == "CLOSE"
DE_ACCEPT == "ACCEPT"
Events == {DE_READ, DE_WRITE, DE_CONNECT, DE_CLOSE, DE_ACCEPT}

CS_CLOSED == "CS_CLOSED"
CS_CONNECTING == "CS_CONNECTING"
CS_CONNECTED == "CS_CONNECTED"

SOCK_STREAM == "tcp"
SOCK_DGRAM == "udp"

\* errno values; "0" is no error, "-1" is SOCKET_ERROR stored as an error code
NOERR == "0"
EWOULDBLOCK == "EWOULDBLOCK"
EINPROGRESS == "EINPROGRESS"
EALREADY == "EALREADY"
EBADF == "EBADF"
ENOTSOCK == "ENOTSOCK"
ENOTCONN == "ENOTCONN"
ECONNREFUSED == "ECONNREFUSED"
ECONNRESET == "ECONNRESET"
EMFILE == "EMFILE"
EINVAL == "EINVAL"
EISCONN == "EISCONN"
KEEP == "keep"      \* the system call succeeded

IsBlockingError(e) == e \in {EWOULDBLOCK, EINPROGRESS}

VARIABLES
  platform,        \* "posix" or "win32": which #ifdef branch was built
  dispatchers_,    \* PhysicalSocketServer::dispatchers_
  iterators_,      \* PhysicalSocketServer::iterators_: names of the live cursors
  fWait_,          \* PhysicalSocketServer::fWait_
  fSignaled_,      \* EventDispatcher::fSignaled_ (posix) / the event is set (win32)
  pipe_,           \* unread bytes in the wakeup pipe afd_
  socket_ev_,      \* win32: socket_ev_ is signalled
  event_owners,    \* win32: Wait's event_owners
  sock,            \* the SocketDispatcher objects
  os,              \* the descriptor table of the operating system
  next_id_,        \* SocketDispatcher::next_id_ (win32)
  resolvers,       \* the AsyncResolver objects: state and the socket they notify
  pc,              \* where the thread that calls Wait is
  cmsWait, process_io,   \* the arguments of the Wait in progress
  tv,              \* *ptvWait: "inf", "pos" or "zero"
  late,            \* the deadline tvStop has passed
  fdsRead, fdsWrite, fdmax,   \* Wait's fd_sets / win32: armed network events
  i, end,          \* Wait's loop cursors
  ev,              \* the OnEvent call in progress
  waitRet,         \* what Wait returned, if the last step of the loop thread was its return
  assertFailed,    \* an ASSERT of the source failed
  \* history
  visited,         \* how often the dispatch loop's body ran for each dispatcher, this pass
  startReg,        \* dispatchers_ when the pass began
  removed,         \* dispatchers removed since the pass began
  unreg,           \* dispatchers removed and not added again since
  calls,           \* the OnPreEvent / OnEvent calls of the loop body that ran last
  pairs,           \* how often each dispatcher got OnPreEvent and OnEvent, this pass
  sigs,            \* signals emitted by the OnEvent call in progress
  closeCount,      \* close signals emitted per socket since it was created
  woke,            \* WakeUp was called during the Wait in progress, or that just returned
  last,            \* the socket API call that has just returned: its result, and
                   \* the socket's s_ and resolver_ when it was made
  \* the posix signal router
  signal_dispatcher_,   \* PhysicalSocketServer::signal_dispatcher_ is not NULL
  handlers_,       \* PosixSignalDispatcher::handlers_: the signal numbers with an entry
  received_signal_,     \* PosixSignalHandler::received_signal_
  sigpipe,         \* unread bytes in the pipe afd_ of PosixSignalHandler
  sigact,          \* sigaction: GlobalSignalHandler is the handler of the signal
  hpc,             \* statements a running GlobalSignalHandler has executed, per signal
  signum,          \* PosixSignalDispatcher::OnEvent's loop variable
  pending,         \* history: signals that arrived with the flag clear and a user
                   \* handler set, and whose user handler has not run since
  invoked          \* history: the signal whose user handler the last step called

vars == <<platform, dispatchers_, iterators_, fWait_, fSignaled_, pipe_, socket_ev_,
          event_owners, sock, os, next_id_, resolvers, pc, cmsWait, process_io, tv,
          late, fdsRead, fdsWrite, fdmax, i, end, ev, waitRet, assertFailed, visited,
          startReg, removed, unreg, calls, pairs, sigs, closeCount, woke, last,
          signal_dispatcher_, handlers_, received_signal_, sigpipe, sigact, hpc,
          signum, pending, invoked>>

\* what the socket API works on
apiVars == <<sock, os, dispatchers_, iterators_, i, end, next_id_, resolvers,
             assertFailed, removed, unreg, closeCount>>
argVars == <<platform, cmsWait, process_io>>
sigVars == <<signal_dispatcher_, handlers_, received_signal_, sigpipe, sigact, hpc,
             signum, pending, invoked>>
wakeVars == <<fWait_, fSignaled_, pipe_>>
selVars == <<fdsRead, fdsWrite, fdmax>>
passVars == <<visited, startReg, calls, pairs, sigs>>

\* ------------------------------------------------------------------ helpers
Range(s) == {s[k] : k \in 1..Len(s)}
IndexOf(s, x) == CHOOSE k \in 1..Len(s) : s[k] = x
RemoveAt(s, k) == [j \in 1..(Len(s) - 1) |-> IF j < k THEN s[j] ELSE s[j + 1]]
Max(S) == CHOOSE x \in S : \A y \in S : y <= x
Min(S) == CHOOSE x \in S : \A y \in S : x <= y
NoDup(s) == \A a, b \in 1..Len(s) : a # b => s[a] # s[b]

\* ------------------------------------------------------------------ the OS
\* sel: the events WSAEventSelect asked for; fin: FD_CLOSE is recorded (win32)
FreeFd == [k |-> "free", st |-> "unconn", rx |-> 0, eof |-> FALSE, err |-> NOERR,
           wfull |-> FALSE, sel |-> {}, fin |-> FALSE]
IsOpen(o, fd) == fd \in {PipeFd, SignalFd} \/ (fd \in SockFds /\ o[fd].k # "free")

\* ::socket(): the lowest free descriptor, or EMFILE
sys_socket(o, type) ==
  LET free == {fd \in SockFds : o[fd].k = "free"} IN
  IF free = {} THEN [os |-> o, r |-> INVALID_SOCKET, e |-> EMFILE]
  ELSE [os |-> [o EXCEPT ![Min(free)] = [FreeFd EXCEPT !.k = type]],
        r |-> Min(free), e |-> KEEP]

\* ::closesocket()
sys_close(o, fd) ==
  IF fd \in SockFds /\ o[fd].k # "free"
  THEN [os |-> [o EXCEPT ![fd] = FreeFd], r |-> 0, e |-> KEEP]
  ELSE [os |-> o, r |-> -1, e |-> EBADF]

\* ::recv() / ::recvfrom() of len bytes; peek is MSG_PEEK
sys_recv(o, fd, len, peek) ==
  IF ~(fd \in SockFds /\ o[fd].k # "free") THEN [os |-> o, r |-> -1, e |-> EBADF]
  ELSE IF o[fd].err # NOERR
    THEN [os |-> [o EXCEPT ![fd].err = NOERR], r |-> -1, e |-> o[fd].err]
  ELSE IF o[fd].k = SOCK_STREAM /\ o[fd].st # "conn"
    THEN [os |-> o, r |-> -1, e |-> ENOTCONN]
  ELSE IF o[fd].rx > 0
    THEN [os |-> IF peek \/ len = 0 THEN o ELSE [o EXCEPT ![fd].rx = @ - 1],
          r |-> IF len = 0 THEN 0 ELSE 1, e |-> KEEP]
  ELSE IF o[fd].eof THEN [os |-> o, r |-> 0, e |-> KEEP]
  ELSE [os |-> o, r |-> -1, e |-> EWOULDBLOCK]

\* ::getsockopt(fd, SOL_SOCKET, SO_ERROR): reads and clears the pending error
sys_so_error(o, fd) ==
  IF fd \in {PipeFd, SignalFd} THEN [os |-> o, r |-> -1, v |-> NOERR, e |-> ENOTSOCK]
  ELSE IF ~IsOpen(o, fd) THEN [os |-> o, r |-> -1, v |-> NOERR, e |-> EBADF]
  ELSE [os |-> [o EXCEPT ![fd].err = NOERR], r |-> 0, v |-> o[fd].err, e |-> KEEP]

\* ::connect(); how says what the network does with a new attempt
sys_connect(o, fd, how) ==
  IF ~(fd \in SockFds /\ o[fd].k # "free") THEN [os |-> o, r |-> -1, e |-> EBADF]
  ELSE IF o[fd].k = SOCK_DGRAM THEN [os |-> o, r |-> 0, e |-> KEEP]
  ELSE IF o[fd].st = "inprog" THEN [os |-> o, r |-> -1, e |-> EALREADY]
  ELSE IF o[fd].st # "unconn" THEN [os |-> o, r |-> -1, e |-> EISCONN]
  ELSE IF how = "ok" THEN [os |-> [o EXCEPT ![fd].st = "conn"], r |-> 0, e |-> KEEP]
  ELSE IF how = "inprogress"
    THEN [os |-> [o EXCEPT ![fd].st = "inprog"], r |-> -1, e |-> EINPROGRESS]
  ELSE [os |-> o, r |-> -1, e |-> ECONNREFUSED]

\* ::listen()
sys_listen(o, fd) ==
  IF ~(fd \in SockFds /\ o[fd].k # "free") THEN [os |-> o, r |-> -1, e |-> EBADF]
  ELSE IF o[fd].k = SOCK_STREAM /\ o[fd].st \in {"unconn", "listen"}
    THEN [os |-> [o EXCEPT ![fd].st = "listen"], r |-> 0, e |-> KEEP]
  ELSE [os |-> o, r |-> -1, e |-> EINVAL]

\* ::accept(): a queued connection becomes a new connected descriptor
sys_accept(o, fd) ==
  LET free == {f \in SockFds : o[f].k = "free"} IN
  IF ~(fd \in SockFds /\ o[fd].k # "free") THEN [os |-> o, r |-> -1, e |-> EBADF]
  ELSE IF ~(o[fd].k = SOCK_STREAM /\ o[fd].st = "listen")
    THEN [os |-> o, r |-> -1, e |-> EINVAL]
  ELSE IF o[fd].rx = 0 THEN [os |-> o, r |-> -1, e |-> EWOULDBLOCK]
  ELSE IF free = {} THEN [os |-> o, r |-> -1, e |-> EMFILE]
  ELSE [os |-> [o EXCEPT ![fd].rx = @ - 1,
                         ![Min(free)] = [FreeFd EXCEPT !.k = SOCK_STREAM, !.st = "conn"]],
        r |-> Min(free), e |-> KEEP]

\* ::send() / ::sendto(); full says the send buffer has no room
sys_send(o, fd, full) ==
  IF ~(fd \in SockFds /\ o[fd].k # "free") THEN [os |-> o, r |-> -1, e |-> EBADF]
  ELSE IF o[fd].err # NOERR
    THEN [os |-> [o EXCEPT ![fd].err = NOERR], r |-> -1, e |-> o[fd].err]
  ELSE IF o[fd].k = SOCK_STREAM /\ o[fd].st # "conn"
    THEN [os |-> o, r |-> -1, e |-> ENOTCONN]
  ELSE IF full \/ o[fd].wfull
    THEN [os |-> [o EXCEPT ![fd].wfull = TRUE], r |-> -1, e |-> EWOULDBLOCK]
  ELSE [os |-> o, r |-> 1, e |-> KEEP]

\* what select() / the network events report for a descriptor
Readable(o, fd) ==
  IF fd = PipeFd THEN pipe_ > 0
  ELSE IF fd = SignalFd THEN sigpipe > 0
  ELSE IsOpen(o, fd) /\ (o[fd].rx > 0 \/ o[fd].eof \/ o[fd].err # NOERR)
Writable(o, fd) ==
  /\ fd \notin {PipeFd, SignalFd}
  /\ IsOpen(o, fd)
  /\ \/ o[fd].err # NOERR
     \/ (o[fd].k = SOCK_DGRAM \/ o[fd].st = "conn") /\ ~o[fd].wfull

\* ------------------------------------------------------------------ the world
\* The part of the state the socket API works on, as one value, so that a
\* method that calls other methods is the composition of their effects.
World == [sock |-> sock, os |-> os, d |-> dispatchers_, errno |-> NOERR,
          its |-> iterators_, i |-> i, end |-> end, nid |-> next_id_,
          rs |-> resolvers, bad |-> assertFailed, rm |-> removed, un |-> unreg,
          cc |-> closeCount, ret |-> 0, ok |-> TRUE, osret |-> 0]

Commit(w) ==
  /\ sock' = w.sock
  /\ os' = w.os
  /\ dispatchers_' = w.d
  /\ iterators_' = w.its
  /\ i' = w.i
  /\ end' = w.end
  /\ next_id_' = w.nid
  /\ resolvers' = w.rs
  /\ assertFailed' = w.bad
  /\ removed' = w.rm
  /\ unreg' = w.un
  /\ closeCount' = w.cc

\* a system call was made; errno (LAST_SYSTEM_ERROR) is the error of the call
\* just made, and is taken to be 0 after a call that succeeded
SysDone(w, res) ==
  [w EXCEPT !.os = res.os, !.errno = IF res.e = KEEP THEN NOERR ELSE res.e,
            !.osret = res.r]

\* PhysicalSocket::UpdateLastError
UpdateLastError(w, s) == [w EXCEPT !.sock[s].error_ = w.errno]

\* Add that does not look for the dispatcher first
AddAlwaysAppends(w, d) == [w EXCEPT !.d = Append(@, d), !.un = @ \ {d}]

\* PhysicalSocketServer::Add
Add(w, d) ==
  IF d \in Range(w.d) THEN w ELSE [w EXCEPT !.d = Append(@, d), !.un = @ \ {d}]

\* Remove that forgets to erase the entry
RemoveKeepsEntry(w, d) ==
  IF d \notin Range(w.d) THEN [w EXCEPT !.bad = TRUE]
  ELSE [w EXCEPT !.rm = @ \cup {d}, !.un = @ \cup {d}]

\* Remove that also decrements a cursor that stands at the erased index
RemoveDecrementsAtIndex(w, d) ==
  IF d \notin Range(w.d) THEN [w EXCEPT !.bad = TRUE]
  ELSE LET index == IndexOf(w.d, d) - 1 IN
       [w EXCEPT !.d = RemoveAt(@, index + 1),
                 !.rm = @ \cup {d},
                 !.un = @ \cup {d},
                 !.i = IF "i" \in Range(w.its) /\ index <= @ THEN @ - 1 ELSE @,
                 !.end = IF "end" \in Range(w.its) /\ index < @ THEN @ - 1 ELSE @]

\* PhysicalSocketServer::Remove
Remove(w, d) ==
  IF d \notin Range(w.d) THEN [w EXCEPT !.bad = TRUE]
  ELSE LET index == IndexOf(w.d, d) - 1 IN
       [w EXCEPT !.d = RemoveAt(@, index + 1),
                 !.rm = @ \cup {d},
                 !.un = @ \cup {d},
                 !.i = IF "i" \in Range(w.its) /\ index < @ THEN @ - 1 ELSE @,
                 !.end = IF "end" \in Range(w.its) /\ index < @ THEN @ - 1 ELSE @]

\* AsyncResolver (SignalThread) as the socket uses it: Start, Destroy(false),
\* and the completion notification SignalWorkDone. A resolver is "unused" until
\* new returns it, "running" until its notification is delivered, then "done";
\* one destroyed while running is "torn" (its notification is still on its
\* way), any other destroyed one is "gone".
NoResolver == [st |-> "unused", to |-> 0]
Start(rs, r, s) == [rs EXCEPT ![r] = [st |-> "running", to |-> s]]
Destroy(rs, r) == [rs EXCEPT ![r].st = IF @ = "running" THEN "torn" ELSE "gone"]

\* PhysicalSocket::Close
PhysicalSocket_Close(w, s) ==
  IF w.sock[s].s_ = INVALID_SOCKET THEN [w EXCEPT !.ret = 0]
  ELSE LET w1 == UpdateLastError(SysDone(w, sys_close(w.os, w.sock[s].s_)), s) IN
       [w1 EXCEPT !.sock[s].s_ = INVALID_SOCKET,
                  !.sock[s].state_ = CS_CLOSED,
                  !.sock[s].enabled_events_ = {},
                  !.rs = IF w.sock[s].resolver_ # 0
                         THEN Destroy(@, w.sock[s].resolver_) ELSE @,
                  !.sock[s].resolver_ = 0,
                  !.ret = w1.osret]

\* Close that does not test s_ before it deregisters
CloseAlwaysRemoves(w, s) ==
  PhysicalSocket_Close(Remove([w EXCEPT !.cc[s] = 0], s), s)

\* SocketDispatcher::Close
SocketDispatcher_Close(w, s) ==
  IF w.sock[s].s_ = INVALID_SOCKET THEN [w EXCEPT !.ret = 0]
  ELSE LET w1 == IF platform = "win32"
                 THEN [w EXCEPT !.sock[s].id_ = 0, !.sock[s].signal_close_ = FALSE]
                 ELSE w
       IN PhysicalSocket_Close(Remove([w1 EXCEPT !.cc[s] = 0], s), s)

\* PhysicalSocket::Create
PhysicalSocket_Create(w, s, type) ==
  LET w1 == SocketDispatcher_Close(w, s)
      w2 == SysDone(w1, sys_socket(w1.os, type))
      w3 == UpdateLastError([w2 EXCEPT !.sock[s].s_ = w2.osret,
                                       !.sock[s].udp_ = (type = SOCK_DGRAM)], s)
  IN [w3 EXCEPT !.sock[s].enabled_events_ =
                    IF type = SOCK_DGRAM THEN {DE_READ, DE_WRITE} ELSE @,
                !.ok = (w2.osret # INVALID_SOCKET)]

\* an Initialize that does not register the dispatcher
InitializeWithoutAdd(w, s) == [w EXCEPT !.ok = TRUE]

\* SocketDispatcher::Initialize
Initialize(w, s) == [Add(w, s) EXCEPT !.ok = TRUE]

\* SocketDispatcher::Create
SocketDispatcher_Create(w, s, type) ==
  LET w1 == PhysicalSocket_Create(w, s, type) IN
  IF ~w1.ok THEN w1
  ELSE LET w2 == Initialize(w1, s) IN
       IF platform = "win32"
       THEN [w2 EXCEPT !.nid = @ + 1, !.sock[s].id_ = w2.nid + 1]
       ELSE w2

\* PhysicalSocket::DoConnect
DoConnect(w, s, how) ==
  LET w1 == UpdateLastError(SysDone(w, sys_connect(w.os, w.sock[s].s_, how)), s)
      err == w1.osret
      w2 == IF err = 0 THEN [w1 EXCEPT !.sock[s].state_ = CS_CONNECTED]
            ELSE [w1 EXCEPT !.sock[s].state_ = CS_CONNECTING,
                            !.sock[s].enabled_events_ = @ \cup {DE_CONNECT}]
  IN IF err # 0 /\ ~IsBlockingError(w1.sock[s].error_)
     THEN [w1 EXCEPT !.ret = SOCKET_ERROR]
     ELSE [w2 EXCEPT !.sock[s].enabled_events_ = @ \cup {DE_READ, DE_WRITE},
                     !.ret = 0]

\* PhysicalSocket::Connect; how = "unresolved" is an address that needs resolving,
\* r the AsyncResolver that new returns
Connect(w, s, how, r) ==
  LET w1 == IF w.sock[s].s_ = INVALID_SOCKET
            THEN SocketDispatcher_Create(w, s, SOCK_STREAM) ELSE w
  IN IF w.sock[s].s_ = INVALID_SOCKET /\ ~w1.ok THEN [w1 EXCEPT !.ret = SOCKET_ERROR]
     ELSE IF how = "unresolved"
       THEN IF w1.sock[s].state_ # CS_CLOSED
            THEN [w1 EXCEPT !.sock[s].error_ = EALREADY, !.ret = SOCKET_ERROR]
            ELSE [w1 EXCEPT !.sock[s].resolver_ = r,
                            !.rs = Start(@, r, s),
                            !.sock[s].state_ = CS_CONNECTING,
                            !.ret = 0]
     ELSE DoConnect(w1, s, how)

\* PhysicalSocket::Send and SendTo
Send(w, s, full) ==
  LET w1 == UpdateLastError(SysDone(w, sys_send(w.os, w.sock[s].s_, full)), s)
      sent == w1.osret
  IN [w1 EXCEPT !.sock[s].enabled_events_ =
                    IF sent < 0 /\ IsBlockingError(w1.sock[s].error_)
                    THEN @ \cup {DE_WRITE} ELSE @,
                !.ret = sent]

\* Recv that hands the zero of the system call to the caller
RecvPassesZero(w, s, length) ==
  LET w1 == UpdateLastError(SysDone(w, sys_recv(w.os, w.sock[s].s_, length, FALSE)), s)
      received == w1.osret
      success == received >= 0 \/ IsBlockingError(w1.sock[s].error_)
  IN [w1 EXCEPT !.sock[s].enabled_events_ =
                    IF w1.sock[s].udp_ \/ success THEN @ \cup {DE_READ} ELSE @,
                !.ret = received]

\* PhysicalSocket::Recv
Recv(w, s, length) ==
  LET w0 == SysDone(w, sys_recv(w.os, w.sock[s].s_, length, FALSE))
      received == w0.osret
      w1 == UpdateLastError(w0, s)
      success == received >= 0 \/ IsBlockingError(w1.sock[s].error_)
  IN IF received = 0 /\ length # 0
     THEN [w0 EXCEPT !.sock[s].enabled_events_ = @ \cup {DE_READ},
                     !.sock[s].error_ = EWOULDBLOCK,
                     !.ret = SOCKET_ERROR]
     ELSE [w1 EXCEPT !.sock[s].enabled_events_ =
                         IF w1.sock[s].udp_ \/ success THEN @ \cup {DE_READ} ELSE @,
                     !.ret = received]

\* PhysicalSocket::RecvFrom
RecvFrom(w, s, length) ==
  LET w1 == UpdateLastError(SysDone(w, sys_recv(w.os, w.sock[s].s_, length, FALSE)), s)
      received == w1.osret
      success == received >= 0 \/ IsBlockingError(w1.sock[s].error_)
  IN [w1 EXCEPT !.sock[s].enabled_events_ =
                    IF w1.sock[s].udp_ \/ success THEN @ \cup {DE_READ} ELSE @,
                !.ret = received]

\* PhysicalSocket::Listen
Listen(w, s) ==
  LET w1 == UpdateLastError(SysDone(w, sys_listen(w.os, w.sock[s].s_)), s)
      err == w1.osret
  IN IF err = 0
     THEN [w1 EXCEPT !.sock[s].state_ = CS_CONNECTING,
                     !.sock[s].enabled_events_ = @ \cup {DE_ACCEPT},
                     !.ret = err]
     ELSE [w1 EXCEPT !.ret = err]

\* PhysicalSocket::PhysicalSocket(ss, s) and SocketDispatcher(s, ss); u is what
\* SO_TYPE says of the descriptor.  Without a descriptor udp_ is left
\* uninitialized: Create assigns it before anything reads it.
NewSocket(fd, u) ==
  [s_ |-> fd,
   enabled_events_ |-> IF fd # INVALID_SOCKET THEN {DE_READ, DE_WRITE} ELSE {},
   error_ |-> NOERR,
   state_ |-> IF fd = INVALID_SOCKET THEN CS_CLOSED ELSE CS_CONNECTED,
   udp_ |-> u,
   resolver_ |-> 0,
   id_ |-> 0,
   signal_close_ |-> FALSE,
   signal_err_ |-> NOERR]

\* PhysicalSocketServer::WrapSocket: t is the object that new returns
WrapSocket(w, fd, t) ==
  Initialize([w EXCEPT !.sock[t] = NewSocket(fd, w.os[fd].k = SOCK_DGRAM),
                       !.cc[t] = 0], t)

\* PhysicalSocket::Accept; the accepted socket is object t, 0 is NULL
Accept(w, s, t) ==
  LET w1 == UpdateLastError(SysDone(w, sys_accept(w.os, w.sock[s].s_)), s)
      fd == w1.osret
  IN IF fd = INVALID_SOCKET THEN [w1 EXCEPT !.ret = 0]
     ELSE [WrapSocket([w1 EXCEPT !.sock[s].enabled_events_ = @ \cup {DE_ACCEPT}],
                      fd, t)
           EXCEPT !.ret = t]

\* SocketDispatcher::~SocketDispatcher then PhysicalSocket::~PhysicalSocket
Destructor(w, s) == PhysicalSocket_Close(SocketDispatcher_Close(w, s), s)

\* OnResolveResult that does not compare the thread with resolver_
OnResolveResultOfAnyThread(w, s, thread, reserr, how) ==
  LET w1 == IF reserr = NOERR THEN DoConnect(w, s, how)
            ELSE SocketDispatcher_Close(w, s)
      error == IF reserr = NOERR
               THEN (IF w1.ret = 0 THEN NOERR ELSE "-1") ELSE reserr
  IN IF error # NOERR
     THEN [w1 EXCEPT !.sock[s].error_ = error, !.cc[s] = @ + 1]
     ELSE w1

\* PhysicalSocket::OnResolveResult, called with the resolver that completed, its
\* error() and what the network does with the connect that follows
OnResolveResult(w, s, thread, reserr, how) ==
  IF thread # w.sock[s].resolver_ THEN w
  ELSE LET w1 == IF reserr = NOERR THEN DoConnect(w, s, how)
                 ELSE SocketDispatcher_Close(w, s)
           error == IF reserr = NOERR
                    THEN (IF w1.ret = 0 THEN NOERR ELSE "-1") ELSE reserr
       IN IF error # NOERR
          THEN [w1 EXCEPT !.sock[s].error_ = error, !.cc[s] = @ + 1]
          ELSE w1

\* ------------------------------------------------------------------ dispatchers
\* Dispatcher::GetDescriptor
GetDescriptor(w, d) ==
  IF d = signal_wakeup_ THEN PipeFd
  ELSE IF d = PosixSignalDispatcher THEN SignalFd
  ELSE w.sock[d].s_

\* Dispatcher::GetRequestedEvents (posix EventDispatcher: DE_READ)
GetRequestedEvents(w, d) ==
  IF d = signal_wakeup_ THEN (IF platform = "posix" THEN {DE_READ} ELSE {})
  ELSE IF d = PosixSignalDispatcher THEN {DE_READ}
  ELSE w.sock[d].enabled_events_

\* SocketDispatcher::IsDescriptorClosed (posix); the result is in ok
IsDescriptorClosed(w, d) ==
  IF d \in {signal_wakeup_, PosixSignalDispatcher} THEN [w EXCEPT !.ok = FALSE]
  ELSE LET res == sys_recv(w.os, w.sock[d].s_, 1, TRUE)
           w1 == SysDone(w, res)
       IN [w1 EXCEPT !.ok = IF res.r > 0 THEN FALSE
                            ELSE IF res.r = 0 THEN TRUE
                            ELSE res.e \in {EBADF, ECONNRESET}]

\* SocketDispatcher::OnPreEvent
OnPreEvent(sk, ff) ==
  IF platform = "posix"
  THEN [sk EXCEPT !.state_ = IF DE_CLOSE \in ff THEN CS_CLOSED
                             ELSE IF DE_CONNECT \in ff THEN CS_CONNECTED ELSE @]
  ELSE [sk EXCEPT !.state_ = IF DE_CONNECT \in ff THEN CS_CONNECTED ELSE @]

\* an OnEvent that tests ACCEPT right after READ
EventOrderAcceptEarly == <<DE_READ, DE_ACCEPT, DE_WRITE, DE_CONNECT, DE_CLOSE>>

\* SocketDispatcher::OnEvent tests the bits in this order
EventOrder == <<DE_READ, DE_WRITE, DE_CONNECT, DE_ACCEPT, DE_CLOSE>>
SignalOf(bit) ==
  CASE bit = DE_READ -> "SignalReadEvent"
    [] bit = DE_ACCEPT -> "SignalReadEvent"
    [] bit = DE_WRITE -> "SignalWriteEvent"
    [] bit = DE_CONNECT -> "SignalConnectEvent"
    [] bit = DE_CLOSE -> "SignalCloseEvent"

\* an OnEvent that emits the signal without clearing the bit
OnEventKeepsBit(sk, ff, err, cache_id, k) ==
  LET elig == {j \in k..5 : /\ EventOrder[j] \in ff
                            /\ (platform = "posix" \/ j = 1 \/ sk.id_ = cache_id)}
      j == Min(elig)
  IN IF elig = {} THEN [sk |-> sk, k |-> 6, sig |-> "none", bit |-> "none"]
     ELSE IF EventOrder[j] = DE_CLOSE /\ platform = "win32"
       THEN [sk |-> [sk EXCEPT !.signal_close_ = TRUE, !.signal_err_ = err],
             k |-> 6, sig |-> "none", bit |-> "none"]
     ELSE [sk |-> sk, k |-> j, sig |-> SignalOf(EventOrder[j]), bit |-> EventOrder[j]]

\* SocketDispatcher::OnEvent from its k-th test on, up to the next signal it
\* emits: the socket after the bit was cleared, the test that emits (6: OnEvent
\* returns) and the signal
OnEvent(sk, ff, err, cache_id, k) ==
  LET elig == {j \in k..5 : /\ EventOrder[j] \in ff
                            /\ (platform = "posix" \/ j = 1 \/ sk.id_ = cache_id)}
      j == Min(elig)
  IN IF elig = {} THEN [sk |-> sk, k |-> 6, sig |-> "none", bit |-> "none"]
     ELSE IF EventOrder[j] = DE_CLOSE
       THEN IF platform = "posix"
            THEN [sk |-> [sk EXCEPT !.enabled_events_ = {}], k |-> j,
                  sig |-> SignalOf(DE_CLOSE), bit |-> DE_CLOSE]
            ELSE [sk |-> [sk EXCEPT !.signal_close_ = TRUE, !.signal_err_ = err],
                  k |-> 6, sig |-> "none", bit |-> "none"]
     ELSE [sk |-> [sk EXCEPT !.enabled_events_ = @ \ {EventOrder[j]}], k |-> j,
           sig |-> SignalOf(EventOrder[j]), bit |-> EventOrder[j]]


\* a CheckSignalClose that does not peek: a recorded close is signalled at once
CheckSignalCloseWithoutPeek(w, d) ==
  IF d = signal_wakeup_ \/ ~w.sock[d].signal_close_ THEN [w EXCEPT !.ok = FALSE]
  ELSE [w EXCEPT !.sock[d].state_ = CS_CLOSED,
                 !.sock[d].signal_close_ = FALSE,
                 !.cc[d] = IF @ < 2 THEN @ + 1 ELSE @,
                 !.ok = TRUE]

\* SocketDispatcher::CheckSignalClose (win32); ok says whether the close signal
\* was emitted
CheckSignalClose(w, d) ==
  IF d = signal_wakeup_ \/ ~w.sock[d].signal_close_ THEN [w EXCEPT !.ok = FALSE]
  ELSE LET res == sys_recv(w.os, w.sock[d].s_, 1, TRUE)
           w1 == SysDone(w, res)
       IN IF res.r > 0 THEN [w1 EXCEPT !.ok = FALSE]
          ELSE [w1 EXCEPT !.sock[d].state_ = CS_CLOSED,
                          !.sock[d].signal_close_ = FALSE,
                          !.cc[d] = IF @ < 2 THEN @ + 1 ELSE @,
                          !.ok = TRUE]

\* FlagsToEvents (win32): FD_CLOSE is always asked for
FlagsToEvents(events) == {DE_CLOSE} \cup events

\* the network events recorded for a descriptor (win32)
NetworkEvents(o, fd) ==
  IF ~IsOpen(o, fd) THEN {}
  ELSE o[fd].sel \cap
       ( (IF o[fd].rx > 0 /\ o[fd].st # "listen" THEN {DE_READ} ELSE {})
         \cup (IF o[fd].rx > 0 /\ o[fd].st = "listen" THEN {DE_ACCEPT} ELSE {})
         \cup (IF Writable(o, fd) THEN {DE_WRITE, DE_CONNECT} ELSE {})
         \cup (IF o[fd].fin THEN {DE_CLOSE} ELSE {}) )

NoEv == [d |-> -1, ff |-> {}, err |-> NOERR, k |-> 0, cache_id |-> 0, ctx |-> "none"]
NoLast == [op |-> "none", s |-> 0, ret |-> 0, osret |-> 0, fd |-> -1, res |-> 0]
None == [d \in Disps \cup {PosixSignalDispatcher} |-> 0]
Once(f, d) == [f EXCEPT ![d] = IF @ < 2 THEN @ + 1 ELSE @]

\* ------------------------------------------------------------------ Wait
\* posix lines 1234-1264, win32 lines 1442-1452: timing, FD_ZERO, fWait_ = true
WaitBegin(cms, pio) ==
  /\ pc = "idle"
  /\ pc' = "top"
  /\ cmsWait' = cms
  /\ process_io' = pio
  /\ tv' = IF cms = "forever" THEN "inf" ELSE "pos"
  /\ late' = FALSE
  /\ fdsRead' = {}
  /\ fdsWrite' = {}
  /\ fdmax' = -1
  /\ fWait_' = TRUE
  /\ waitRet' = "none"
  /\ woke' = FALSE
  /\ last' = NoLast
  /\ UNCHANGED <<sigVars, platform, fSignaled_, pipe_, socket_ev_, event_owners, ev,
                 apiVars,
                 passVars>>

\* a snapshot loop that looks at every dispatcher
PolledAll == Range(dispatchers_)

\* the dispatchers the snapshot loop looks at
Polled == {d \in Range(dispatchers_) : process_io \/ d = signal_wakeup_}

\* Wait returns v
Return(v) ==
  /\ pc' = "idle"
  /\ waitRet' = v
  /\ visited' = None
  /\ startReg' = {}
  /\ calls' = <<>>
  /\ pairs' = None
  /\ sigs' = <<>>

\* posix lines 1266-1286: the loop test and the snapshot of the requested events
LoopTop ==
  /\ pc = "top"
  /\ platform = "posix"
  /\ IF ~fWait_
     THEN /\ Return("true")
          /\ UNCHANGED selVars
     ELSE /\ pc' = "select"
          /\ fdsRead' = fdsRead \cup
               {GetDescriptor(World, d) : d \in
                  {x \in Polled : GetRequestedEvents(World, x) \cap {DE_READ, DE_ACCEPT} # {}}}
          /\ fdsWrite' = fdsWrite \cup
               {GetDescriptor(World, d) : d \in
                  {x \in Polled : GetRequestedEvents(World, x) \cap {DE_WRITE, DE_CONNECT} # {}}}
          /\ fdmax' = Max({-1} \cup {GetDescriptor(World, d) : d \in Polled})
          /\ UNCHANGED <<waitRet, passVars>>
  /\ UNCHANGED <<sigVars, argVars, wakeVars, socket_ev_, event_owners, tv, late, ev, apiVars,
                 woke, last>>

\* what select(fdmax + 1, ...) looks at, and what it finds ready
InRead == {fd \in fdsRead : fd <= fdmax}
InWrite == {fd \in fdsWrite : fd <= fdmax}
ReadyRead == {fd \in InRead : Readable(os, fd)}
ReadyWrite == {fd \in InWrite : Writable(os, fd)}
BadFd == \E fd \in InRead \cup InWrite : ~IsOpen(os, fd)

\* line 1292, n > 0: select leaves the ready descriptors in the sets
SelectReady ==
  /\ pc = "select"
  /\ ~BadFd
  /\ ReadyRead \cup ReadyWrite # {}
  /\ fdsRead' = ReadyRead \cup (fdsRead \ InRead)
  /\ fdsWrite' = ReadyWrite \cup (fdsWrite \ InWrite)
  /\ pc' = "dispatch"
  /\ Commit([World EXCEPT !.i = 0, !.rm = {}])
  /\ visited' = None
  /\ startReg' = Range(dispatchers_)
  /\ calls' = <<>>
  /\ pairs' = None
  /\ sigs' = <<>>
  /\ fdmax' = -1
  /\ UNCHANGED <<sigVars, argVars, wakeVars, socket_ev_, event_owners, tv, late, ev,
                 waitRet, woke, last>>

\* lines 1295-1299: select fails with EBADF, Wait returns false
SelectError ==
  /\ pc = "select"
  /\ BadFd
  /\ Return("false")
  /\ UNCHANGED <<sigVars, argVars, wakeVars, socket_ev_, event_owners, tv, late, selVars, ev,
                 apiVars, woke, last>>

\* lines 1295-1303: select fails with EINTR; the sets are as they were, nothing
\* is dispatched and the loop goes on with the time left worked out again
SelectInterrupted ==
  /\ pc = "select"
  /\ pc' = "passend"
  /\ tv' = IF cmsWait = "forever" THEN "inf" ELSE IF late THEN "zero" ELSE "pos"
  /\ fdmax' = -1
  /\ UNCHANGED <<sigVars, argVars, wakeVars, socket_ev_, event_owners, late, fdsRead, fdsWrite,
                 ev, waitRet, apiVars, passVars, woke, last>>

\* lines 1304-1306: nothing became ready before the timeout, Wait returns true
SelectTimeout ==
  /\ pc = "select"
  /\ ~BadFd
  /\ ReadyRead \cup ReadyWrite = {}
  /\ tv # "inf"
  /\ Return("true")
  /\ late' = TRUE
  /\ fdsRead' = fdsRead \ InRead
  /\ fdsWrite' = fdsWrite \ InWrite
  /\ UNCHANGED <<sigVars, argVars, wakeVars, socket_ev_, event_owners, tv, fdmax, ev, apiVars,
                 woke, last>>

\* a classification that takes every writable connecting socket for connected
ClassifyIgnoresError(w, d) ==
  LET fd == GetDescriptor(w, d)
      rd == fd \in fdsRead
      wr == fd \in fdsWrite
      reap == IF rd \/ wr THEN sys_so_error(w.os, fd)
              ELSE [os |-> w.os, r |-> 0, v |-> NOERR, e |-> KEEP]
      w1 == SysDone(w, reap)
      errcode == reap.v
      req == GetRequestedEvents(w1, d)
      peek == rd /\ DE_ACCEPT \notin req /\ errcode = NOERR
      w2 == IF peek THEN IsDescriptorClosed(w1, d) ELSE w1
      rff == IF ~rd THEN {}
             ELSE IF DE_ACCEPT \in req THEN {DE_ACCEPT}
             ELSE IF errcode # NOERR \/ w2.ok THEN {DE_CLOSE}
             ELSE {DE_READ}
      wff == IF ~wr THEN {}
             ELSE IF DE_CONNECT \in req THEN {DE_CONNECT}
             ELSE {DE_WRITE}
  IN [w |-> w2, ff |-> rff \cup wff, errcode |-> errcode]

\* lines 1313-1351: the error reaped and the events derived for dispatcher d
Classify(w, d) ==
  LET fd == GetDescriptor(w, d)
      rd == fd \in fdsRead
      wr == fd \in fdsWrite
      reap == IF rd \/ wr THEN sys_so_error(w.os, fd)
              ELSE [os |-> w.os, r |-> 0, v |-> NOERR, e |-> KEEP]
      w1 == SysDone(w, reap)
      errcode == reap.v
      req == GetRequestedEvents(w1, d)
      peek == rd /\ DE_ACCEPT \notin req /\ errcode = NOERR
      w2 == IF peek THEN IsDescriptorClosed(w1, d) ELSE w1
      rff == IF ~rd THEN {}
             ELSE IF DE_ACCEPT \in req THEN {DE_ACCEPT}
             ELSE IF errcode # NOERR \/ w2.ok THEN {DE_CLOSE}
             ELSE {DE_READ}
      wff == IF ~wr THEN {}
             ELSE IF DE_CONNECT \in req
               THEN (IF errcode = NOERR THEN {DE_CONNECT} ELSE {DE_CLOSE})
             ELSE {DE_WRITE}
  IN [w |-> w2, ff |-> rff \cup wff, errcode |-> errcode]

\* win32 lines 1545-1597: WSAEnumNetworkEvents, which clears the record of the
\* events it reports, and the events derived from it
ClassifyWin(w, d) ==
  LET fd == GetDescriptor(w, d)
      net == NetworkEvents(w.os, fd)
      cerr == w.os[fd].err
      w1 == [w EXCEPT !.os[fd].fin = FALSE,
                      !.os[fd].sel = @ \ net,
                      !.os[fd].err = IF net \cap {DE_CONNECT, DE_CLOSE} # {}
                                     THEN NOERR ELSE @]
      ff == (net \cap {DE_READ, DE_WRITE, DE_ACCEPT})
            \cup (IF DE_CONNECT \in net
                  THEN (IF cerr = NOERR THEN {DE_CONNECT} ELSE {DE_CLOSE}) ELSE {})
            \cup (IF DE_CLOSE \in net THEN {DE_CLOSE} ELSE {})
  IN [w |-> w1, ff |-> ff,
      errcode |-> IF net \cap {DE_CONNECT, DE_CLOSE} # {} THEN cerr ELSE NOERR]

\* a loop that calls the dispatcher whatever the mask
DispatchesAlways(ff) == TRUE

\* posix line 1353, win32 line 1598: if (ff != 0)
Dispatches(ff) == ff # {}

\* the signal that OnEvent emits next, or its return to the loop
Emit(w, d, ff, err, cache_id, k, ctx, emitted) ==
  LET st == OnEvent(w.sock[d], ff, err, cache_id, k)
      w1 == [w EXCEPT !.sock[d] = st.sk,
                      !.cc[d] = IF st.sig = "SignalCloseEvent" /\ @ < 2 THEN @ + 1 ELSE @]
  IN IF st.k = 6
     THEN /\ Commit([w1 EXCEPT !.i = IF platform = "posix" /\ ctx = "dispatch"
                                     THEN @ + 1 ELSE @])
          /\ pc' = ctx
          /\ ev' = NoEv
          /\ sigs' = emitted
     ELSE /\ Commit(w1)
          /\ pc' = "handler"
          /\ ev' = [d |-> d, ff |-> ff, err |-> err, k |-> st.k,
                    cache_id |-> cache_id, ctx |-> ctx]
          /\ sigs' = Append(emitted, <<st.sig, st.bit>>)

\* Signaler: EventDispatcher::OnPreEvent, then Signaler::OnEvent
\* an OnPreEvent that leaves the byte in the pipe and fSignaled_ set
SignalerEventKeepsSignal ==
  /\ UNCHANGED <<pipe_, fSignaled_>>
  /\ fWait_' = FALSE

SignalerEvent ==
  /\ pipe_' = IF platform = "win32" \/ ~fSignaled_ THEN pipe_
              ELSE IF pipe_ > 4 THEN pipe_ - 4 ELSE 0
  /\ fSignaled_' = FALSE
  /\ fWait_' = FALSE

\* posix lines 1310-1358: the loop body for dispatchers_[i]
Visit ==
  /\ pc = "dispatch"
  /\ platform = "posix"
  /\ i < Len(dispatchers_)
  /\ dispatchers_[i + 1] # PosixSignalDispatcher
  /\ LET d == dispatchers_[i + 1]
         c == Classify(World, d)
         fd == GetDescriptor(World, d)
     IN /\ fdsRead' = fdsRead \ {fd}
        /\ fdsWrite' = fdsWrite \ {fd}
        /\ visited' = Once(visited, d)
        /\ IF ~Dispatches(c.ff)
           THEN /\ Commit([c.w EXCEPT !.i = @ + 1])
                /\ calls' = <<>>
                /\ UNCHANGED <<pc, ev, sigs, pairs, wakeVars>>
           ELSE /\ calls' = <<<<d, "OnPreEvent", c.ff>>, <<d, "OnEvent", c.ff>>>>
                /\ pairs' = Once(pairs, d)
                /\ IF d = signal_wakeup_
                   THEN /\ SignalerEvent
                        /\ Commit([c.w EXCEPT !.i = @ + 1])
                        /\ UNCHANGED <<pc, ev, sigs>>
                   ELSE /\ UNCHANGED wakeVars
                        /\ Emit([c.w EXCEPT !.sock[d] = OnPreEvent(@, c.ff)],
                                d, c.ff, c.errcode, c.w.sock[d].id_, 1, "dispatch",
                                <<>>)
  /\ UNCHANGED <<sigVars, argVars, socket_ev_, event_owners, tv, late, fdmax, waitRet, startReg,
                 woke, last>>

\* the handler of the signal returns: OnEvent goes on with its next test
HandlerReturn ==
  /\ pc = "handler"
  /\ Emit(World, ev.d, ev.ff, ev.err, ev.cache_id, ev.k + 1, ev.ctx, sigs)
  /\ last' = NoLast
  /\ UNCHANGED <<sigVars, argVars, wakeVars, socket_ev_, event_owners, tv, late, selVars,
                 waitRet, visited, startReg, calls, pairs, woke>>

\* posix lines 1358-1380: the pass is over; the time left is worked out again
PassEnd ==
  /\ pc = "dispatch"
  /\ platform = "posix"
  /\ i >= Len(dispatchers_)
  /\ pc' = "passend"
  /\ tv' = IF cmsWait = "forever" THEN "inf" ELSE IF late THEN "zero" ELSE "pos"
  /\ UNCHANGED <<sigVars, argVars, wakeVars, socket_ev_, event_owners, late, selVars, ev,
                 waitRet, apiVars, passVars, woke, last>>

\* posix line 1381: back to the loop test
LoopBack ==
  /\ pc = "passend"
  /\ platform = "posix"
  /\ pc' = "top"
  /\ Commit([World EXCEPT !.i = 0, !.rm = {}])
  /\ visited' = None
  /\ startReg' = {}
  /\ calls' = <<>>
  /\ pairs' = None
  /\ sigs' = <<>>
  /\ UNCHANGED <<sigVars, argVars, wakeVars, socket_ev_, event_owners, tv, late, selVars, ev,
                 waitRet, woke, last>>

\* win32 lines 1453-1462: the loop is entered, the arming loop begins
LoopTopWin ==
  /\ pc = "top"
  /\ platform = "win32"
  /\ pc' = "arm"
  /\ event_owners' = <<>>
  /\ Commit([World EXCEPT !.i = 0, !.its = Append(@, "i")])
  /\ UNCHANGED <<sigVars, argVars, wakeVars, socket_ev_, tv, late, selVars, ev, waitRet,
                 passVars, woke, last>>

\* win32 lines 1465-1480: the arming loop's body for dispatchers_[i++]
ArmVisit ==
  /\ pc = "arm"
  /\ i < Len(dispatchers_)
  /\ LET d == dispatchers_[i + 1]
         w0 == [World EXCEPT !.i = @ + 1]
         c == CheckSignalClose(w0, d)
         s == GetDescriptor(w0, d)
         armed == [c EXCEPT !.os[s].sel = FlagsToEvents(GetRequestedEvents(c, d))]
     IN IF ~process_io /\ d # signal_wakeup_
        THEN /\ Commit(w0)
             /\ UNCHANGED <<pc, ev, sigs, socket_ev_, event_owners>>
        ELSE IF c.ok
        THEN /\ Commit(c)
             /\ pc' = "handler"
             /\ ev' = [d |-> d, ff |-> {}, err |-> c.sock[d].signal_err_, k |-> 5,
                       cache_id |-> 0, ctx |-> "arm"]
             /\ sigs' = <<<<"SignalCloseEvent", DE_CLOSE>>>>
             /\ UNCHANGED <<socket_ev_, event_owners>>
        ELSE IF d # signal_wakeup_
        THEN /\ Commit(armed)
             /\ socket_ev_' = (socket_ev_ \/ NetworkEvents(armed.os, s) # {})
             /\ UNCHANGED <<pc, ev, sigs, event_owners>>
        ELSE /\ Commit(c)
             /\ event_owners' = Append(event_owners, d)
             /\ UNCHANGED <<pc, ev, sigs, socket_ev_>>
  /\ UNCHANGED <<sigVars, argVars, wakeVars, tv, late, selVars, waitRet, visited, startReg,
                 calls, pairs, woke, last>>

\* win32 lines 1481-1492: the arming loop is over
ArmEnd ==
  /\ pc = "arm"
  /\ i >= Len(dispatchers_)
  /\ pc' = "wsawait"
  /\ Commit([World EXCEPT !.its = SubSeq(@, 1, Len(@) - 1),
                          !.bad = @ \/ iterators_ = <<>>
                                    \/ iterators_[Len(iterators_)] # "i",
                          !.i = 0])
  /\ UNCHANGED <<sigVars, argVars, wakeVars, socket_ev_, event_owners, tv, late, selVars, ev,
                 waitRet, passVars, woke, last>>

\* the event objects WSAWaitForMultipleEvents finds signalled: index 0 is
\* socket_ev_, index k the event of event_owners[k]
Signalled ==
  (IF socket_ev_ THEN {0} ELSE {})
    \cup {k \in 1..Len(event_owners) : event_owners[k] = signal_wakeup_ /\ fSignaled_}

\* win32 line 1524: WSA_WAIT_TIMEOUT, Wait returns true
WaitTimeout ==
  /\ pc = "wsawait"
  /\ Signalled = {}
  /\ cmsWait # "forever"
  /\ Return("true")
  /\ late' = TRUE
  /\ UNCHANGED <<sigVars, argVars, wakeVars, socket_ev_, event_owners, tv, selVars, ev, apiVars,
                 woke, last>>

\* win32 lines 1531-1534: an event owner's event is the first one signalled
OwnerEvent ==
  /\ pc = "wsawait"
  /\ Signalled # {}
  /\ Min(Signalled) > 0
  /\ LET d == event_owners[Min(Signalled)]
     IN /\ calls' = <<<<d, "OnPreEvent", {}>>, <<d, "OnEvent", {}>>>>
        /\ pairs' = Once(None, d)
        /\ visited' = None
  /\ SignalerEvent
  /\ startReg' = Range(dispatchers_)
  /\ sigs' = <<>>
  /\ pc' = "passend"
  /\ socket_ev_' = FALSE
  /\ Commit([World EXCEPT !.rm = {}])
  /\ UNCHANGED <<sigVars, argVars, event_owners, tv, late, selVars, ev, waitRet, woke, last>>

\* win32 lines 1535-1538 and 1611: socket_ev_ is the first one signalled
SocketEvent ==
  /\ pc = "wsawait"
  /\ Signalled # {}
  /\ Min(Signalled) = 0
  /\ visited' = None
  /\ startReg' = Range(dispatchers_)
  /\ calls' = <<>>
  /\ pairs' = None
  /\ sigs' = <<>>
  /\ IF process_io
     THEN /\ pc' = "dispatch"
          /\ Commit([World EXCEPT !.i = 0, !.end = Len(dispatchers_),
                                  !.its = @ \o <<"i", "end">>, !.rm = {}])
          /\ UNCHANGED socket_ev_
     ELSE /\ pc' = "passend"
          /\ socket_ev_' = FALSE
          /\ Commit([World EXCEPT !.rm = {}])
  /\ UNCHANGED <<sigVars, argVars, wakeVars, event_owners, tv, late, selVars, ev, waitRet, woke,
                 last>>

\* win32 lines 1539-1603: the dispatch loop's body for dispatchers_[i++]
VisitWin ==
  /\ pc = "dispatch"
  /\ platform = "win32"
  /\ i < end
  /\ LET d == dispatchers_[i + 1]
         w0 == [World EXCEPT !.i = @ + 1]
     IN /\ visited' = Once(visited, d)
        /\ IF GetDescriptor(w0, d) = INVALID_SOCKET \/ d = signal_wakeup_
           THEN /\ Commit(w0)
                /\ calls' = <<>>
                /\ UNCHANGED <<pc, ev, sigs, pairs>>
           ELSE LET c == ClassifyWin(w0, d) IN
                IF ~Dispatches(c.ff)
                THEN /\ Commit(c.w)
                     /\ calls' = <<>>
                     /\ UNCHANGED <<pc, ev, sigs, pairs>>
                ELSE /\ calls' = <<<<d, "OnPreEvent", c.ff>>, <<d, "OnEvent", c.ff>>>>
                     /\ pairs' = Once(pairs, d)
                     /\ Emit([c.w EXCEPT !.sock[d] = OnPreEvent(@, c.ff)],
                             d, c.ff, c.errcode, c.w.sock[d].id_, 1, "dispatch", <<>>)
  /\ UNCHANGED <<sigVars, argVars, wakeVars, socket_ev_, event_owners, tv, late, selVars,
                 waitRet, startReg, woke, last>>

\* win32 lines 1604-1611: the dispatch loop is over, socket_ev_ is reset
PassEndWin ==
  /\ pc = "dispatch"
  /\ platform = "win32"
  /\ i >= end
  /\ pc' = "passend"
  /\ socket_ev_' = FALSE
  /\ Commit([World EXCEPT
       !.its = SubSeq(@, 1, Len(@) - 2),
       !.bad = @ \/ Len(iterators_) < 2
                 \/ iterators_[Len(iterators_)] # "end"
                 \/ iterators_[Len(iterators_) - 1] # "i",
       !.i = 0, !.end = 0])
  /\ UNCHANGED <<sigVars, argVars, wakeVars, event_owners, tv, late, selVars, ev, waitRet,
                 passVars, woke, last>>

\* win32 lines 1614-1624: the two breaks, or once more round the loop
LoopBackWin ==
  /\ pc = "passend"
  /\ platform = "win32"
  /\ IF ~fWait_ \/ (cmsWait # "forever" /\ late)
     THEN /\ Return("true")
          /\ Commit([World EXCEPT !.rm = {}])
          /\ UNCHANGED event_owners
     ELSE /\ pc' = "arm"
          /\ event_owners' = <<>>
          /\ Commit([World EXCEPT !.i = 0, !.its = Append(@, "i"), !.rm = {}])
          /\ visited' = None
          /\ startReg' = {}
          /\ calls' = <<>>
          /\ pairs' = None
          /\ sigs' = <<>>
          /\ UNCHANGED waitRet
  /\ UNCHANGED <<sigVars, argVars, wakeVars, socket_ev_, tv, late, selVars, ev, woke, last>>

\* the clock reaches the deadline of the Wait in progress
Tick ==
  /\ pc # "idle"
  /\ cmsWait # "forever"
  /\ ~late
  /\ late' = TRUE
  /\ last' = NoLast
  /\ UNCHANGED <<sigVars, argVars, wakeVars, socket_ev_, event_owners, pc, tv, selVars, ev,
                 waitRet, apiVars, passVars, woke>>

\* a Signal that writes its byte whether or not fSignaled_ is set
WakeUpWritesAlways ==
  /\ IF platform = "posix"
     THEN pipe_' = pipe_ + 1 /\ fSignaled_' = TRUE
     ELSE fSignaled_' = TRUE /\ UNCHANGED pipe_
  /\ woke' = (woke \/ pc # "idle")
  /\ last' = NoLast
  /\ UNCHANGED <<sigVars, argVars, fWait_, socket_ev_, event_owners, pc, tv, late, selVars, ev,
                 waitRet, apiVars, passVars>>

\* PhysicalSocketServer::WakeUp -> EventDispatcher::Signal, from any thread
WakeUp ==
  /\ IF platform = "posix"
     THEN IF ~fSignaled_
          THEN pipe_' = pipe_ + 1 /\ fSignaled_' = TRUE
          ELSE UNCHANGED <<pipe_, fSignaled_>>
     ELSE fSignaled_' = TRUE /\ UNCHANGED pipe_
  /\ woke' = (woke \/ pc # "idle")
  /\ last' = NoLast
  /\ UNCHANGED <<sigVars, argVars, fWait_, socket_ev_, event_owners, pc, tv, late, selVars, ev,
                 waitRet, apiVars, passVars>>

\* ------------------------------------------------------------------ the application
\* The application calls the socket API between two Wait calls and from the
\* handlers of the signals.
CanCall == pc \in {"idle", "handler"}

Called(w, op, s) ==
  /\ Commit([w EXCEPT !.rm = IF pc = "idle" THEN {} ELSE @])
  /\ last' = [op |-> op, s |-> s, ret |-> w.ret, osret |-> w.osret,
              fd |-> sock[s].s_, res |-> sock[s].resolver_]
  /\ waitRet' = IF pc = "idle" THEN "none" ELSE waitRet
  /\ woke' = IF pc = "idle" THEN FALSE ELSE woke
  /\ UNCHANGED <<sigVars, argVars, wakeVars, socket_ev_, event_owners, pc, tv, late, selVars,
                 ev, passVars>>

IsOpenSocket(s) == sock[s].s_ # INVALID_SOCKET

AppCreate(s, type) ==
  /\ CanCall
  /\ platform = "win32" => next_id_ < MaxId
  /\ Called([SocketDispatcher_Create(World, s, type) EXCEPT !.ret = 0], "Create", s)

AppClose(s) ==
  /\ CanCall
  /\ Called(SocketDispatcher_Close(World, s), "Close", s)

\* delete of a SocketDispatcher; the object may be constructed again
AppDelete(s) ==
  /\ pc = "idle"
  /\ Called([Destructor(World, s) EXCEPT !.sock[s] = NewSocket(INVALID_SOCKET, FALSE)],
            "delete", s)

AppRecv(s, length) ==
  /\ CanCall
  /\ IsOpenSocket(s)
  /\ Called(Recv(World, s, length), "Recv", s)

AppRecvFrom(s, length) ==
  /\ CanCall
  /\ IsOpenSocket(s)
  /\ Called(RecvFrom(World, s, length), "RecvFrom", s)

AppSend(s, full) ==
  /\ CanCall
  /\ IsOpenSocket(s)
  /\ Called(Send(World, s, full), "Send", s)

AppConnect(s, how) ==
  /\ CanCall
  /\ platform = "win32" => next_id_ < MaxId
  /\ LET unused == {r \in Res : resolvers[r].st = "unused"} IN
     IF how = "unresolved"
     THEN /\ unused # {}
          /\ Called(Connect(World, s, how, Min(unused)), "ConnectUnresolved", s)
     ELSE Called(Connect(World, s, how, 0), "Connect", s)

AppListen(s) ==
  /\ CanCall
  /\ IsOpenSocket(s)
  /\ Called(Listen(World, s), "Listen", s)

\* the accepted socket is a new object: a slot whose object was deleted
AppAccept(s) ==
  /\ CanCall
  /\ IsOpenSocket(s)
  /\ \E t \in Socks :
       /\ t # s /\ t # ev.d
       /\ ~IsOpenSocket(t)
       /\ Called(Accept(World, s, t), "Accept", s)

\* the resolver's completion message is handled by the thread that owns the
\* socket, between two Wait calls
ResolveDone(r, reserr, how) ==
  /\ pc = "idle"
  /\ resolvers[r].st = "running"
  /\ LET s == resolvers[r].to
         w == OnResolveResult([World EXCEPT !.rs[r].st = "done"], s, r, reserr, how)
     IN Called(w, "OnResolveResult", s)

\* the notification of a resolver that was destroyed while it was running
\* arrives all the same
StaleDone(r, reserr, how) ==
  /\ pc = "idle"
  /\ resolvers[r].st = "torn"
  /\ LET s == resolvers[r].to
         w == OnResolveResult([World EXCEPT !.rs[r].st = "gone"], s, r, reserr, how)
     IN Called(w, "OnStaleResult", s)

\* ------------------------------------------------------------------ the network
OsStep(o) ==
  /\ os' = o
  /\ socket_ev_' = (socket_ev_ \/
                    (platform = "win32" /\ \E fd \in SockFds : NetworkEvents(o, fd) # {}))
  /\ last' = NoLast
  /\ UNCHANGED <<sigVars, argVars, wakeVars, event_owners, pc, tv, late, selVars, ev, waitRet,
                 sock, dispatchers_, iterators_, i, end, next_id_, resolvers,
                 assertFailed, removed, unreg, closeCount, passVars, woke>>

\* the peer sends a byte or a datagram
PeerSend(fd) ==
  /\ os[fd].k = SOCK_DGRAM \/ (os[fd].k = SOCK_STREAM /\ os[fd].st = "conn" /\ ~os[fd].eof)
  /\ os[fd].rx < MaxRx
  /\ OsStep([os EXCEPT ![fd].rx = @ + 1])

\* the peer shuts its side down: end of stream after the queued bytes
PeerClose(fd) ==
  /\ os[fd].k = SOCK_STREAM /\ os[fd].st = "conn" /\ ~os[fd].eof
  /\ OsStep([os EXCEPT ![fd].eof = TRUE, ![fd].fin = (platform = "win32")])

\* a connection request arrives at a listening socket
PeerConnect(fd) ==
  /\ os[fd].k = SOCK_STREAM /\ os[fd].st = "listen"
  /\ os[fd].rx < MaxRx
  /\ OsStep([os EXCEPT ![fd].rx = @ + 1])

\* a connect in progress completes, or is refused
NetConnected(fd) ==
  /\ os[fd].k = SOCK_STREAM /\ os[fd].st = "inprog"
  /\ OsStep([os EXCEPT ![fd].st = "conn"])

NetRefused(fd) ==
  /\ os[fd].k = SOCK_STREAM /\ os[fd].st = "inprog"
  /\ OsStep([os EXCEPT ![fd].st = "unconn", ![fd].err = ECONNREFUSED])

\* the send buffer drains
NetDrain(fd) ==
  /\ os[fd].k # "free" /\ os[fd].wfull
  /\ OsStep([os EXCEPT ![fd].wfull = FALSE])

\* ------------------------------------------------------------------ specification
\* PhysicalSocketServer::PhysicalSocketServer: the Signaler registers itself
\* no signal handler was set, no signal has arrived
NoSignalRouter ==
  /\ signal_dispatcher_ = FALSE
  /\ handlers_ = {}
  /\ received_signal_ = [sn \in Signums |-> FALSE]
  /\ sigpipe = 0
  /\ sigact = [sn \in Signums |-> FALSE]
  /\ hpc = [sn \in Signums |-> 0]
  /\ signum = 0
  /\ pending = {}
  /\ invoked = 0

Init ==
  /\ platform \in {"posix", "win32"}
  /\ dispatchers_ = <<signal_wakeup_>>
  /\ iterators_ = <<>>
  /\ fWait_ = FALSE
  /\ fSignaled_ = FALSE
  /\ pipe_ = 0
  /\ socket_ev_ = FALSE
  /\ event_owners = <<>>
  /\ sock = [s \in Socks |-> NewSocket(INVALID_SOCKET, FALSE)]
  /\ os = [fd \in SockFds |-> FreeFd]
  /\ next_id_ = 0
  /\ resolvers = [r \in Res |-> NoResolver]
  /\ pc = "idle"
  /\ cmsWait = "forever"
  /\ process_io = TRUE
  /\ tv = "inf"
  /\ late = FALSE
  /\ fdsRead = {}
  /\ fdsWrite = {}
  /\ fdmax = -1
  /\ i = 0
  /\ end = 0
  /\ ev = NoEv
  /\ waitRet = "none"
  /\ assertFailed = FALSE
  /\ visited = None
  /\ startReg = {}
  /\ removed = {}
  /\ unreg = {}
  /\ calls = <<>>
  /\ pairs = None
  /\ sigs = <<>>
  /\ closeCount = [s \in Socks |-> 0]
  /\ woke = FALSE
  /\ last = NoLast
  /\ NoSignalRouter

\* one step of the thread that is inside Wait(kForever, _), select succeeding
WaitLoop ==
  \/ LoopTop
  \/ SelectReady
  \/ Visit
  \/ HandlerReturn
  \/ PassEnd
  \/ LoopBack
  \/ LoopTopWin
  \/ ArmVisit
  \/ ArmEnd
  \/ OwnerEvent
  \/ SocketEvent
  \/ VisitWin
  \/ PassEndWin
  \/ LoopBackWin

\* one step of the thread that is inside Wait(kForever, _)
WaitStep ==
  \/ WaitLoop
  \/ SelectError

\* datagram sockets that are created and closed, between Waits and in handlers
Next ==
  \/ \E pio \in BOOLEAN : WaitBegin("forever", pio)
  \/ WaitStep
  \/ WakeUp
  \/ \E s \in Socks : AppCreate(s, SOCK_DGRAM)
  \/ \E s \in Socks : AppClose(s)

Spec == Init /\ [][Next]_vars

\* another thread calls WakeUp while the Wait is blocked in its poll
WakeBlocked ==
  /\ pc \in {"select", "wsawait"}
  /\ WakeUp

\* the posix build
InitPosix == Init /\ platform = "posix"

\* ------------------------------------------------------------------ posix signals
\* PosixSignalHandler::OnPosixSignalReceived, the statements in their order: the
\* flag of the signal is set, then one byte is written to the pipe.  The
\* handler runs at any moment, on any thread; each statement is one step.
OnPosixSignalReceivedWritesFirst == <<"write", "set">>

OnPosixSignalReceived == <<"set", "write">>

\* one statement of OnPosixSignalReceived(sn); write fails on a full pipe
Statement(op, sn) ==
  IF op = "set"
  THEN /\ received_signal_' = [received_signal_ EXCEPT ![sn] = TRUE]
       /\ UNCHANGED sigpipe
  ELSE /\ sigpipe' = IF sigpipe < MaxPipe THEN sigpipe + 1 ELSE sigpipe
       /\ UNCHANGED received_signal_

\* the signal sn is delivered to the process: GlobalSignalHandler starts
SignalArrives(sn) ==
  /\ platform = "posix"
  /\ sigact[sn]
  /\ hpc[sn] = 0
  /\ Statement(OnPosixSignalReceived[1], sn)
  /\ hpc' = [hpc EXCEPT ![sn] = 1]
  /\ pending' = IF sn \in handlers_ /\ ~received_signal_[sn] THEN pending \cup {sn}
                ELSE pending
  /\ UNCHANGED <<signal_dispatcher_, handlers_, sigact, signum, invoked, argVars,
                 wakeVars, socket_ev_, event_owners, pc, tv, late, selVars, ev, waitRet,
                 apiVars, passVars, woke, last>>

\* GlobalSignalHandler executes its second statement and returns
SignalHandlerFinishes(sn) ==
  /\ hpc[sn] = 1
  /\ Statement(OnPosixSignalReceived[2], sn)
  /\ hpc' = [hpc EXCEPT ![sn] = 0]
  /\ UNCHANGED <<signal_dispatcher_, handlers_, sigact, signum, pending, invoked,
                 argVars, wakeVars, socket_ev_, event_owners, pc, tv, late, selVars, ev,
                 waitRet, apiVars, passVars, woke, last>>

\* PhysicalSocketServer::InstallSignal: sigaction succeeds
InstallSignal(sn) == sn \notin Uncatchable

\* a HasHandlers that always finds one
HasHandlersAlways(hs) == TRUE

\* PosixSignalDispatcher::HasHandlers
HasHandlers(hs) == hs # {}

\* PhysicalSocketServer::SetPosixSignalHandler, called between two Waits;
\* handler is "SIG_IGN", "SIG_DFL" or "handler", a function of the application
SetPosixSignalHandler(sn, handler) ==
  /\ pc = "idle"
  /\ platform = "posix"
  /\ IF handler \in {"SIG_IGN", "SIG_DFL"}
     THEN IF ~InstallSignal(sn)
          THEN UNCHANGED <<signal_dispatcher_, handlers_, sigact, pending, apiVars>>
          ELSE /\ sigact' = [sigact EXCEPT ![sn] = FALSE]
               /\ pending' = pending \ {sn}
               /\ IF signal_dispatcher_
                  THEN /\ handlers_' = handlers_ \ {sn}
                       /\ IF ~HasHandlers(handlers_ \ {sn})
                          THEN /\ signal_dispatcher_' = FALSE
                               /\ Commit([Remove(World, PosixSignalDispatcher)
                                            EXCEPT !.rm = {}])
                          ELSE UNCHANGED <<signal_dispatcher_, apiVars>>
                  ELSE UNCHANGED <<signal_dispatcher_, handlers_, apiVars>>
     ELSE /\ signal_dispatcher_' = TRUE
          /\ IF ~signal_dispatcher_
             THEN Commit(Add(World, PosixSignalDispatcher))
             ELSE UNCHANGED apiVars
          /\ handlers_' = handlers_ \cup {sn}
          /\ sigact' = IF InstallSignal(sn) THEN [sigact EXCEPT ![sn] = TRUE] ELSE sigact
          /\ UNCHANGED pending
  /\ waitRet' = "none"
  /\ woke' = FALSE
  /\ last' = NoLast
  /\ UNCHANGED <<received_signal_, sigpipe, hpc, signum, invoked, argVars, wakeVars,
                 socket_ev_, event_owners, pc, tv, late, selVars, ev, passVars>>

\* PosixSignalDispatcher::OnPreEvent reads at most this many bytes
ReadChunk == 16

\* posix lines 1310-1358 for the signal dispatcher: its descriptor is
\* classified, OnPreEvent reads the pipe and OnEvent begins its loop
VisitSignalDispatcher ==
  /\ pc = "dispatch"
  /\ platform = "posix"
  /\ i < Len(dispatchers_)
  /\ dispatchers_[i + 1] = PosixSignalDispatcher
  /\ LET d == PosixSignalDispatcher
         c == Classify(World, d)
         fd == GetDescriptor(World, d)
     IN /\ fdsRead' = fdsRead \ {fd}
        /\ fdsWrite' = fdsWrite \ {fd}
        /\ visited' = Once(visited, d)
        /\ IF ~Dispatches(c.ff)
           THEN /\ Commit([c.w EXCEPT !.i = @ + 1])
                /\ calls' = <<>>
                /\ UNCHANGED <<pc, pairs, sigpipe, signum>>
           ELSE /\ Commit(c.w)
                /\ calls' = <<<<d, "OnPreEvent", c.ff>>, <<d, "OnEvent", c.ff>>>>
                /\ pairs' = Once(pairs, d)
                /\ sigpipe' = IF sigpipe > ReadChunk THEN sigpipe - ReadChunk ELSE 0
                /\ pc' = "scan"
                /\ signum' = 1
  /\ invoked' = 0
  /\ UNCHANGED <<signal_dispatcher_, handlers_, received_signal_, sigact, hpc, pending,
                 argVars, wakeVars, socket_ev_, event_owners, tv, late, fdmax, ev,
                 waitRet, startReg, sigs, woke, last>>

\* PosixSignalDispatcher::OnEvent, line 731: IsSignalSet(signum)
ScanTest ==
  /\ pc = "scan"
  /\ signum \in Signums
  /\ IF received_signal_[signum]
     THEN pc' = "clear" /\ UNCHANGED signum
     ELSE signum' = signum + 1 /\ UNCHANGED pc
  /\ invoked' = 0
  /\ UNCHANGED <<signal_dispatcher_, handlers_, received_signal_, sigpipe, sigact, hpc,
                 pending, argVars, wakeVars, socket_ev_, event_owners, tv, late, selVars,
                 ev, waitRet, apiVars, passVars, woke, last>>

\* PosixSignalDispatcher::OnEvent, lines 732-742: ClearSignal(signum), and the
\* handler of the application is called if handlers_ has one
ScanClear ==
  /\ pc = "clear"
  /\ received_signal_' = [received_signal_ EXCEPT ![signum] = FALSE]
  /\ invoked' = IF signum \in handlers_ THEN signum ELSE 0
  /\ pending' = IF signum \in handlers_ THEN pending \ {signum} ELSE pending
  /\ signum' = signum + 1
  /\ pc' = "scan"
  /\ UNCHANGED <<signal_dispatcher_, handlers_, sigpipe, sigact, hpc, argVars, wakeVars,
                 socket_ev_, event_owners, tv, late, selVars, ev, waitRet, apiVars,
                 passVars, woke, last>>

\* PosixSignalDispatcher::OnEvent returns: the loop of Wait goes on
ScanEnd ==
  /\ pc = "scan"
  /\ signum \notin Signums
  /\ pc' = "dispatch"
  /\ signum' = 0
  /\ invoked' = 0
  /\ Commit([World EXCEPT !.i = @ + 1])
  /\ UNCHANGED <<signal_dispatcher_, handlers_, received_signal_, sigpipe, sigact, hpc,
                 pending, argVars, wakeVars, socket_ev_, event_owners, tv, late, selVars,
                 ev, waitRet, passVars, woke, last>>

\* the posix loop with the wakeup pipe and the signal dispatcher: handlers are
\* set and removed between two Waits, signals arrive at any moment
NextSig ==
  \/ WaitBegin("forever", TRUE)
  \/ LoopTop
  \/ SelectReady
  \/ SelectInterrupted
  \/ Visit
  \/ VisitSignalDispatcher
  \/ ScanTest
  \/ ScanClear
  \/ ScanEnd
  \/ PassEnd
  \/ LoopBack
  \/ WakeUp
  \/ \E sn \in Signums, handler \in {"SIG_DFL", "handler"} : SetPosixSignalHandler(sn, handler)
  \/ \E sn \in Signums : SignalArrives(sn)
  \/ \E sn \in Signums : SignalHandlerFinishes(sn)

SpecSig == InitPosix /\ [][NextSig]_vars

\* SpecSig with a loop thread that runs and is not interrupted in select for
\* ever, an application that calls Wait(kForever, true) again whenever Wait has
\* returned, and signal handlers that return
SigFairness ==
  /\ WF_vars(WaitBegin("forever", TRUE))
  /\ WF_vars(LoopTop)
  /\ SF_vars(SelectReady)
  /\ WF_vars(Visit)
  /\ WF_vars(VisitSignalDispatcher)
  /\ WF_vars(ScanTest)
  /\ WF_vars(ScanClear)
  /\ WF_vars(ScanEnd)
  /\ WF_vars(PassEnd)
  /\ WF_vars(LoopBack)
  /\ \A sn \in Signums : WF_vars(SignalHandlerFinishes(sn))

SpecSigLive == SpecSig /\ SigFairness

\* one stream socket that connects, reads, writes and is closed, and its peer;
\* with one socket no dispatcher is removed before the loop reaches it, the
\* fd sets hold no descriptor that is closed and select does not fail
\* (OneSocketSelectSucceeds)
StreamSocks == {1}
Hows == {"ok", "inprogress"}
NextSock ==
  \/ WaitBegin("forever", TRUE)
  \/ WaitLoop
  \/ WakeBlocked
  \/ \E s \in StreamSocks, how \in Hows : AppConnect(s, how)
  \/ \E s \in StreamSocks : AppRecv(s, 1)
  \/ \E s \in StreamSocks : AppRecvFrom(s, 1)
  \/ \E s \in StreamSocks, full \in BOOLEAN : AppSend(s, full)
  \/ \E s \in StreamSocks : AppClose(s)
  \/ \E fd \in SockFds : PeerSend(fd)
  \/ \E fd \in SockFds : PeerClose(fd)
  \/ \E fd \in SockFds : NetConnected(fd)
  \/ \E fd \in SockFds : NetRefused(fd)
  \/ \E fd \in SockFds : NetDrain(fd)

SpecSock == Init /\ [][NextSock]_vars

OneSocketSelectSucceeds == pc = "select" => ~BadFd

\* one socket that is connected (to a name that may need resolving), closed
\* and deleted
AllHows == {"ok", "inprogress", "refused", "unresolved"}
NextClose ==
  \/ WaitBegin("forever", TRUE)
  \/ WaitLoop
  \/ WakeBlocked
  \/ \E s \in StreamSocks, how \in AllHows : AppConnect(s, how)
  \/ \E r \in Res, reserr \in {NOERR, "EAI_NONAME"}, how \in AllHows \ {"unresolved"} :
       ResolveDone(r, reserr, how)
  \/ \E r \in Res, reserr \in {NOERR, "EAI_NONAME"}, how \in AllHows \ {"unresolved"} :
       StaleDone(r, reserr, how)
  \/ \E s \in StreamSocks : AppClose(s)
  \/ \E s \in StreamSocks : AppDelete(s)
  \/ \E fd \in SockFds : NetConnected(fd)
  \/ \E fd \in SockFds : NetRefused(fd)

SpecClose == Init /\ [][NextClose]_vars

\* the posix loop with one stream socket that listens, accepts and connects
\* between two Waits, and its peers; no descriptor is closed during a Wait and
\* select does not fail (OneSocketSelectSucceeds)
NextMask ==
  \/ WaitBegin("forever", TRUE)
  \/ LoopTop
  \/ SelectReady
  \/ Visit
  \/ HandlerReturn
  \/ PassEnd
  \/ LoopBack
  \/ WakeBlocked
  \/ \E s \in StreamSocks : pc = "idle" /\ AppListen(s)
  \/ \E s \in StreamSocks, how \in Hows : pc = "idle" /\ AppConnect(s, how)
  \/ \E s \in StreamSocks : pc = "idle" /\ AppAccept(s)
  \/ \E s \in Socks : pc = "idle" /\ AppClose(s)
  \/ \E fd \in SockFds : PeerConnect(fd)
  \/ \E fd \in SockFds : PeerSend(fd)
  \/ \E fd \in SockFds : PeerClose(fd)
  \/ \E fd \in SockFds : NetConnected(fd)
  \/ \E fd \in SockFds : NetRefused(fd)

SpecMask == InitPosix /\ [][NextMask]_vars

\* OnPreEvent(ff) and OnEvent(ff, err) called on one socket dispatcher, for every
\* mask ff: the socket is connected, connecting or listening, was created or
\* wrapped, and the handlers of its signals read, write, accept and close
Kinds == {"conn", "inprog", "listen"}
EnabledOf(kind) ==
  CASE kind = "conn" -> SUBSET {DE_READ, DE_WRITE}
    [] kind = "inprog" -> {{DE_READ, DE_WRITE, DE_CONNECT}, {DE_CONNECT}}
    [] kind = "listen" -> SUBSET {DE_ACCEPT}

InitEv ==
  /\ platform \in {"posix", "win32"}
  /\ \E kind \in Kinds, ff \in SUBSET Events \ {{}}, rx \in 0..MaxRx, created \in BOOLEAN :
       /\ \E en \in EnabledOf(kind) :
            sock = [s \in Socks |->
                     IF s = 1
                     THEN [NewSocket(1, FALSE) EXCEPT
                             !.enabled_events_ = en,
                             !.state_ = IF kind = "conn" THEN CS_CONNECTED ELSE CS_CONNECTING,
                             !.id_ = IF platform = "win32" /\ created THEN 1 ELSE 0]
                     ELSE NewSocket(INVALID_SOCKET, FALSE)]
       /\ os = [fd \in SockFds |->
                 IF fd = 1 THEN [FreeFd EXCEPT !.k = SOCK_STREAM, !.st = kind, !.rx = rx]
                 ELSE FreeFd]
       /\ ev = [d |-> 1, ff |-> ff, err |-> NOERR, k |-> 0, cache_id |-> 0,
                ctx |-> "done"]
       /\ next_id_ = IF platform = "win32" /\ created THEN 1 ELSE 0
  /\ dispatchers_ = <<signal_wakeup_, 1>>
  /\ iterators_ = <<>>
  /\ fWait_ = FALSE
  /\ fSignaled_ = FALSE
  /\ pipe_ = 0
  /\ socket_ev_ = FALSE
  /\ event_owners = <<>>
  /\ resolvers = [r \in Res |-> NoResolver]
  /\ pc = "onevent"
  /\ cmsWait = "forever"
  /\ process_io = TRUE
  /\ tv = "inf"
  /\ late = FALSE
  /\ fdsRead = {}
  /\ fdsWrite = {}
  /\ fdmax = -1
  /\ i = 0
  /\ end = 0
  /\ waitRet = "none"
  /\ assertFailed = FALSE
  /\ visited = None
  /\ startReg = {}
  /\ removed = {}
  /\ unreg = {}
  /\ calls = <<>>
  /\ pairs = None
  /\ sigs = <<>>
  /\ closeCount = [s \in Socks |-> 0]
  /\ woke = FALSE
  /\ last = NoLast
  /\ NoSignalRouter

\* disp->OnPreEvent(ff); disp->OnEvent(ff, err)
OnEventCall ==
  /\ pc = "onevent"
  /\ calls' = <<<<ev.d, "OnPreEvent", ev.ff>>, <<ev.d, "OnEvent", ev.ff>>>>
  /\ pairs' = Once(pairs, ev.d)
  /\ Emit([World EXCEPT !.sock[ev.d] = OnPreEvent(@, ev.ff)],
          ev.d, ev.ff, ev.err, sock[ev.d].id_, 1, "done", <<>>)
  /\ UNCHANGED <<sigVars, argVars, wakeVars, socket_ev_, event_owners, tv, late, selVars,
                 waitRet, visited, startReg, woke, last>>

NextEv ==
  \/ OnEventCall
  \/ HandlerReturn
  \/ \E s \in StreamSocks : AppRecv(s, 1)
  \/ \E s \in StreamSocks, full \in BOOLEAN : AppSend(s, full)
  \/ \E s \in StreamSocks : AppAccept(s)
  \/ \E s \in StreamSocks : AppClose(s)

SpecEv == InitEv /\ [][NextEv]_vars

\* ------------------------------------------------------------------ the dispatch pass
\* C1: a Wait(kForever, _) during which WakeUp was called returns true.
C1_WokenWaitReturnsTrue ==
  (pc = "idle" /\ woke) => waitRet = "true"

\* a Wait(kForever, _) during which WakeUp was called has returned false
C1_WokenWaitFailed ==
  /\ pc = "idle"
  /\ woke
  /\ waitRet = "false"
  /\ cmsWait = "forever"

\* C2: in the posix dispatch pass no dispatcher that stays registered is
\* visited twice, and when the pass is over every dispatcher that was registered
\* when it began and was not removed during it has been visited.
C2_StayersVisitedOnce ==
  platform = "posix" =>
    /\ \A d \in Disps \ removed : visited[d] <= 1
    /\ pc = "passend" => \A d \in startReg \ removed : visited[d] = 1

\* a posix pass has ended without visiting a dispatcher that stayed registered
C2_Skipped ==
  /\ platform = "posix"
  /\ pc = "passend"
  /\ \E d \in startReg \ removed : visited[d] = 0

\* C3: while a dispatcher is removed from the registry (and not added again) the
\* loop body does not run for it and it gets no OnPreEvent / OnEvent, in the pass
\* in which it was removed and in every later one.
C3_RemovedNotCalled ==
  [][\A d \in Socks :
       (d \in unreg /\ d \in unreg') =>
          /\ visited'[d] <= visited[d]
          /\ pairs'[d] <= pairs[d]]_vars

\* a pass has ended in which the handler of A removed B, which was registered
\* when the pass began and had not been visited
C3_RemovedInPass ==
  /\ pc = "passend"
  /\ \E A, B \in Socks :
       /\ A # B
       /\ pairs[A] = 1
       /\ B \in startReg /\ B \in removed /\ B \in unreg
       /\ visited[B] = 0

\* the calls of the loop body that ran last are OnPreEvent then OnEvent of one
\* dispatcher with one mask
PairedCalls ==
  calls # <<>> =>
    /\ Len(calls) = 2
    /\ calls[1][2] = "OnPreEvent" /\ calls[2][2] = "OnEvent"
    /\ calls[1][1] = calls[2][1]
    /\ calls[1][3] = calls[2][3]

OtherThreadCreate(s) ==
  /\ pc \in {"select", "wsawait"}
  /\ ~process_io
  /\ platform = "win32" => next_id_ < MaxId
  /\ Called([SocketDispatcher_Create(World, s, SOCK_DGRAM) EXCEPT !.ret = 0],
            "Create", s)

OtherThreadClose(s) ==
  /\ pc \in {"select", "wsawait"}
  /\ ~process_io
  /\ Called(SocketDispatcher_Close(World, s), "Close", s)

\* one datagram socket that is created, read and closed, datagrams that keep
\* coming in, and Waits with a deadline; as in SpecSock select does not fail
\* with one socket
TimedSocks == {1}
NextTimed ==
  \/ WaitBegin("finite", TRUE)
  \/ WaitLoop
  \/ SelectInterrupted
  \/ SelectTimeout
  \/ WaitTimeout
  \/ Tick
  \/ WakeBlocked
  \/ \E s \in TimedSocks : AppCreate(s, SOCK_DGRAM)
  \/ \E s \in TimedSocks : AppClose(s)
  \/ \E s \in TimedSocks : AppRecvFrom(s, 1)
  \/ \E fd \in SockFds : PeerSend(fd)

SpecTimed == Init /\ [][NextTimed]_vars

\* datagram sockets created and closed by the thread that waits and, while a
\* Wait(kForever, false) is blocked, by another thread
NextWakeable ==
  \/ \E pio \in BOOLEAN : WaitBegin("forever", pio)
  \/ WaitStep
  \/ WakeBlocked
  \/ \E s \in Socks : AppCreate(s, SOCK_DGRAM)
  \/ \E s \in Socks : AppClose(s)
  \/ \E s \in Socks : OtherThreadCreate(s)
  \/ \E s \in Socks : OtherThreadClose(s)

SpecWakeable == Init /\ [][NextWakeable]_vars

\* C12: a Wait with a deadline returns at the latest when the pass that was in
\* progress at the deadline is over: once the time left has been found to be
\* zero after a pass, no further pass is dispatched.
C12_NoPassAfterDeadline ==
  cmsWait # "forever" => ~(pc \in {"dispatch", "handler"} /\ tv = "zero")

C12_PassAfterDeadline ==
  /\ platform = "posix"
  /\ cmsWait = "finite"
  /\ late
  /\ tv = "zero"
  /\ pc = "handler"
  /\ ev.d \in Socks
  /\ pairs[ev.d] = 1

\* C13: Wait returns false only when the poll itself fails; nothing a handler
\* did in an earlier pass, such as closing another socket, makes it return
\* false. No descriptor is closed here but by the thread that waits, in its
\* handlers and between its Waits.
C13_HandlersNeverFailWait == waitRet # "false"

C13_FailedAfterHandlerClose ==
  /\ pc = "idle"
  /\ waitRet = "false"
  /\ ~woke
  /\ \E fd \in fdsRead \cup fdsWrite : fd # PipeFd /\ ~IsOpen(os, fd)

\* C14: during Wait(cms, false) the loop calls OnPreEvent and OnEvent on the
\* signaler only, emits no signal and changes no socket's enabled_events_ or
\* state_, whatever is ready and whatever is registered or removed meanwhile.
C14_OnlyTheSignaler ==
  [][(pc # "idle" /\ ~process_io) =>
       /\ \A s \in Socks : pairs'[s] = 0
       /\ calls' # <<>> => calls'[1][1] = signal_wakeup_
       /\ sigs' = <<>>
       /\ pc' # "handler"
       /\ last' = last =>
            \A s \in Socks : /\ sock'[s].enabled_events_ = sock[s].enabled_events_
                             /\ sock'[s].state_ = sock[s].state_]_vars

C14_WokenBesideReadySocket ==
  /\ ~process_io
  /\ pc = "passend"
  /\ calls # <<>>
  /\ calls[1][1] = signal_wakeup_
  /\ \E s \in Socks :
       /\ IsOpenSocket(s)
       /\ s \in Range(dispatchers_)
       /\ DE_WRITE \in sock[s].enabled_events_
       /\ Writable(os, sock[s].s_)
       /\ last.op = "Create"
       /\ last.s = s

\* ------------------------------------------------------------------ the registry
\* ss->Add(d) and ss->Remove(d) called directly, outside Wait; a failed ASSERT
\* ends the program
ServerCalled(w, op, d) ==
  /\ Commit([w EXCEPT !.rm = {}])
  /\ last' = [NoLast EXCEPT !.op = op, !.s = d]
  /\ UNCHANGED <<sigVars, argVars, wakeVars, socket_ev_, event_owners, pc, tv, late, selVars,
                 ev, waitRet, passVars, woke>>

RegAdd(d) ==
  /\ pc = "idle"
  /\ ~assertFailed
  /\ ServerCalled(Add(World, d), "Add", d)

RegRemove(d) ==
  /\ pc = "idle"
  /\ ~assertFailed
  /\ ServerCalled(Remove(World, d), "Remove", d)

NextReg ==
  \/ \E d \in Disps : RegAdd(d)
  \/ \E d \in Disps : RegRemove(d)

SpecReg == Init /\ [][NextReg]_vars

\* C11: the registry holds no dispatcher twice: Add of a registered dispatcher
\* changes nothing, Add of another appends it, Remove of a registered
\* dispatcher takes out that one and keeps the order of the others, Remove of
\* a dispatcher that is not registered fails its ASSERT.
C11_RegistryIsASet ==
  [][LET d == last'.s
         Others(x) == x # d
     IN /\ NoDup(dispatchers_')
        /\ last'.op = "Add" =>
             /\ dispatchers_' = IF d \in Range(dispatchers_) THEN dispatchers_
                                ELSE Append(dispatchers_, d)
             /\ ~assertFailed'
        /\ last'.op = "Remove" =>
             IF d \in Range(dispatchers_)
             THEN dispatchers_' = SelectSeq(dispatchers_, Others) /\ ~assertFailed'
             ELSE dispatchers_' = dispatchers_ /\ assertFailed']_vars

C11_SecondRemove ==
  /\ assertFailed
  /\ last.op = "Remove"
  /\ last.s \in unreg
  /\ Len(dispatchers_) = 2
  /\ dispatchers_[2] = signal_wakeup_

\* ------------------------------------------------------------------ one OnEvent call
BitRank(b) ==
  CASE b = DE_READ -> 1 [] b = DE_WRITE -> 2 [] b = DE_CONNECT -> 3
    [] b = DE_ACCEPT -> 4 [] b = DE_CLOSE -> 5

SignalRank(sg) ==
  CASE sg = "SignalReadEvent" -> 1 [] sg = "SignalWriteEvent" -> 2
    [] sg = "SignalConnectEvent" -> 3 [] sg = "SignalCloseEvent" -> 4

SignalOfBit(b) ==
  CASE b \in {DE_READ, DE_ACCEPT} -> "SignalReadEvent"
    [] b = DE_WRITE -> "SignalWriteEvent"
    [] b = DE_CONNECT -> "SignalConnectEvent"
    [] b = DE_CLOSE -> "SignalCloseEvent"

SameSocket(s) == sock[s].s_ # INVALID_SOCKET /\ sock'[s].s_ = sock[s].s_

Armed(s, b) == b \notin sock[s].enabled_events_ /\ b \in sock'[s].enabled_events_

\* C6: when OnEvent emits the signal of READ, WRITE, CONNECT or ACCEPT the bit
\* is already out of enabled_events_, and a bit comes back into the
\* enabled_events_ of a socket only by an I/O call on it: READ by Recv or
\* RecvFrom, WRITE by a Send that would block, ACCEPT by Accept.
C6_ClearedBeforeSignal ==
  [][/\ (pc' = "handler" /\ sigs' # sigs) =>
          LET b == sigs'[Len(sigs')][2]
          IN b # DE_CLOSE => b \notin sock'[ev'.d].enabled_events_
     /\ \A s \in Socks : SameSocket(s) =>
          /\ Armed(s, DE_READ) => last'.s = s /\ last'.op \in {"Recv", "RecvFrom"}
          /\ Armed(s, DE_WRITE) =>
               last'.s = s /\ last'.op = "Send" /\ last'.ret = SOCKET_ERROR
          /\ Armed(s, DE_ACCEPT) => last'.s = s /\ last'.op = "Accept"
          /\ ~Armed(s, DE_CONNECT)]_vars

C6_SignalWithBitCleared ==
  /\ pc = "handler"
  /\ last = NoLast
  /\ sigs # <<>>
  /\ sigs[Len(sigs)][2] = DE_ACCEPT
  /\ calls # <<>>
  /\ {DE_READ, DE_WRITE} \subseteq calls[2][3]
  /\ sock[ev.d].enabled_events_ = {}

\* ------------------------------------------------------------------ stream sockets
\* C7: a stream socket whose peer has closed gets its close signal once, also
\* when a handler calls Recv again after the close was delivered.
C7_CloseOnce ==
  \A s \in Socks :
    (IsOpenSocket(s) /\ os[sock[s].s_].eof) => closeCount[s] <= 1

C7_CloseTwice ==
  \E s \in Socks : IsOpenSocket(s) /\ os[sock[s].s_].eof /\ closeCount[s] = 2

\* the descriptor of d is readable with nothing to read but the end of the stream
AtEndOfStream(d) ==
  /\ d \in Socks
  /\ IsOpenSocket(d)
  /\ sock[d].s_ \in fdsRead
  /\ os[sock[d].s_].eof
  /\ os[sock[d].s_].rx = 0
  /\ os[sock[d].s_].err = NOERR

\* C8: Recv never returns 0: a read of zero bytes on a stream socket comes back
\* as SOCKET_ERROR with EWOULDBLOCK and READ armed again, and the next posix
\* pass turns the readable descriptor at the end of the stream into CLOSE.
C8_RecvNeverZero ==
  /\ last.op = "Recv" =>
       /\ last.ret # 0
       /\ last.osret = 0 =>
            /\ last.ret = SOCKET_ERROR
            /\ sock[last.s].error_ = EWOULDBLOCK
            /\ DE_READ \in sock[last.s].enabled_events_
  /\ (platform = "posix" /\ pc = "dispatch" /\ i < Len(dispatchers_)
        /\ AtEndOfStream(dispatchers_[i + 1])) =>
       LET ff == Classify(World, dispatchers_[i + 1]).ff
       IN DE_CLOSE \in ff /\ DE_READ \notin ff

C8_ZeroRead == last.op = "Recv" /\ last.osret = 0 /\ last.ret = SOCKET_ERROR

\* C9: RecvFrom never returns 0 either: a read of zero bytes comes back as
\* SOCKET_ERROR with EWOULDBLOCK and READ armed again.
C9_RecvFromNeverZero ==
  last.op = "RecvFrom" =>
    /\ last.ret # 0
    /\ last.osret = 0 =>
         /\ last.ret = SOCKET_ERROR
         /\ sock[last.s].error_ = EWOULDBLOCK
         /\ DE_READ \in sock[last.s].enabled_events_

C9_RecvFromZero == last.op = "RecvFrom" /\ last.osret = 0 /\ last.ret = 0

\* ------------------------------------------------------------------ Close
\* C10: Close leaves the socket without descriptor, CS_CLOSED, with nothing
\* enabled, without resolver and out of the registry; Close on a closed socket
\* returns 0 and changes nothing, the destructor's Close included, and Remove
\* never misses the dispatcher it is asked to take out.
C10_CloseIdempotent ==
  /\ ~assertFailed
  /\ last.op = "Close" =>
       /\ last.ret = 0
       /\ sock[last.s].s_ = INVALID_SOCKET
       /\ sock[last.s].state_ = CS_CLOSED
       /\ sock[last.s].enabled_events_ = {}
       /\ sock[last.s].resolver_ = 0
       /\ last.s \notin Range(dispatchers_)
       /\ last.res # 0 => resolvers[last.res].st \in {"torn", "gone"}
  /\ \A s \in Socks : ~IsOpenSocket(s) =>
       /\ SocketDispatcher_Close(World, s) = World
       /\ ~Destructor(World, s).bad

C10_SecondClose ==
  /\ last.op = "Close"
  /\ last.fd = INVALID_SOCKET
  /\ last.s \in unreg

\* ------------------------------------------------------------------ resolvers
\* the resolvers that were started for socket s and not destroyed since
Undestroyed(rs, s) == {r \in Res : rs[r].st \in {"running", "done"} /\ rs[r].to = s}

\* C15: Connect with an unresolved address fails with SOCKET_ERROR and EALREADY
\* when state_ is not CS_CLOSED, and leaves state_, enabled_events_ and the
\* resolver alone; when state_ is CS_CLOSED it returns 0, resolver_ is a
\* resolver that has just been started, the only resolver of the socket that
\* is not destroyed, and state_ is CS_CONNECTING.
C15_UnresolvedConnect ==
  [][last'.op = "ConnectUnresolved" =>
       LET s == last'.s IN
       IF sock[s].state_ # CS_CLOSED
       THEN /\ last'.ret = SOCKET_ERROR
            /\ sock'[s] = [sock[s] EXCEPT !.error_ = EALREADY]
            /\ resolvers' = resolvers
       ELSE /\ last'.ret = 0
            /\ sock'[s].state_ = CS_CONNECTING
            /\ sock'[s].resolver_ \in Res
            /\ resolvers[sock'[s].resolver_].st = "unused"
            /\ resolvers'[sock'[s].resolver_].st = "running"
            /\ Undestroyed(resolvers', s) = {sock'[s].resolver_}]_vars

C15_SecondResolverStarted ==
  /\ last.op = "ConnectUnresolved"
  /\ last.ret = 0
  /\ last.res # 0
  /\ sock[last.s].state_ = CS_CONNECTING
  /\ sock[last.s].resolver_ \notin {0, last.res}
  /\ Undestroyed(resolvers, last.s) = {last.res, sock[last.s].resolver_}

\* C16: once the notification of its resolver has been handled, with the
\* resolution a success or a failure, the socket has no resolver any more.
C16_ReleasedAtCompletion ==
  (last.op = "OnResolveResult" /\ last.res # 0
     /\ resolvers[last.res].st \in {"done", "gone"})
    => sock[last.s].resolver_ = 0

C16_KeptAfterCompletion ==
  /\ last.op = "OnResolveResult"
  /\ last.res # 0
  /\ sock[last.s].resolver_ = last.res
  /\ resolvers[last.res].st = "done"
  /\ sock[last.s].state_ \in {CS_CONNECTED, CS_CONNECTING}
  /\ IsOpenSocket(last.s)

\* C17: Close tears down the resolver that is running for the socket, and the
\* notification of a torn-down resolver that arrives afterwards makes no
\* connect attempt, changes nothing of the socket and emits no signal, also
\* when the socket was created again or resolves another name by then.
C17_StaleResultIgnored ==
  [][/\ (last'.op = "Close" /\ last'.res # 0) =>
          /\ resolvers'[last'.res].st \in {"torn", "gone"}
          /\ resolvers[last'.res].st = "running" => resolvers'[last'.res].st = "torn"
          /\ sock'[last'.s].resolver_ = 0
     /\ last'.op = "OnStaleResult" =>
          /\ sock' = sock
          /\ os' = os
          /\ dispatchers_' = dispatchers_
          /\ closeCount' = closeCount
          /\ \A r \in Res : resolvers'[r].st # resolvers[r].st => resolvers[r].st = "torn"]_vars

C17_StaleWhileResolvingAgain ==
  /\ last.op = "OnStaleResult"
  /\ IsOpenSocket(last.s)
  /\ last.res # 0
  /\ resolvers[last.res].st = "running"
  /\ sock[last.s].resolver_ = last.res
  /\ \E r \in Res : resolvers[r].st = "gone" /\ resolvers[r].to = last.s

\* ------------------------------------------------------------------ signals of one OnEvent
\* C18: when the handler of a signal of OnEvent has closed the socket, OnEvent
\* emits no further signal for that dispatcher, created or wrapped, posix or
\* win32.
C18_NoSignalAfterClose ==
  (pc = "handler" /\ last = NoLast /\ ev.ctx = "done") => IsOpenSocket(ev.d)

C18_SignalOnClosedWrappedSocket ==
  /\ platform = "win32"
  /\ pc = "handler"
  /\ last = NoLast
  /\ ev.ctx = "done"
  /\ Len(sigs) >= 2
  /\ ~IsOpenSocket(ev.d)
  /\ ev.d \in unreg
  /\ ev.cache_id = 0

\* C19: in the step that emits the close signal of a socket dispatcher, from
\* OnEvent (posix) or from CheckSignalClose (win32), its enabled_events_ is
\* empty.
C19_CloseSignalClearsEvents ==
  [][(pc' = "handler" /\ ev' # ev /\ sigs' # <<>>
        /\ sigs'[Len(sigs')][2] = DE_CLOSE)
       => sock'[ev'.d].enabled_events_ = {}]_vars

C19_CloseSignalStillWatched ==
  /\ platform = "win32"
  /\ pc = "handler"
  /\ ev.ctx = "arm"
  /\ last = NoLast
  /\ sigs = <<<<"SignalCloseEvent", DE_CLOSE>>>>
  /\ sock[ev.d].state_ = CS_CLOSED
  /\ IsOpenSocket(ev.d)
  /\ DE_WRITE \in sock[ev.d].enabled_events_

\* C20: after an Accept that the handler of a delivered DE_ACCEPT calls on the
\* listening socket, DE_ACCEPT is in enabled_events_, whether or not ::accept
\* returned a connection.
C20_AcceptReArms ==
  (/\ pc = "handler"
   /\ sigs # <<>>
   /\ sigs[Len(sigs)][2] = DE_ACCEPT
   /\ last.op = "Accept"
   /\ last.s = ev.d
   /\ IsOpenSocket(ev.d)
   /\ os[sock[ev.d].s_].st = "listen")
    => DE_ACCEPT \in sock[ev.d].enabled_events_

C20_AcceptLeftUnarmed ==
  /\ pc = "handler"
  /\ sigs # <<>>
  /\ sigs[Len(sigs)][2] = DE_ACCEPT
  /\ last.op = "Accept"
  /\ last.s = ev.d
  /\ last.ret = 0
  /\ last.osret = INVALID_SOCKET
  /\ IsOpenSocket(ev.d)
  /\ os[sock[ev.d].s_].st = "listen"
  /\ os[sock[ev.d].s_].rx = 0
  /\ DE_ACCEPT \notin sock[ev.d].enabled_events_

\* ------------------------------------------------------------------ the win32 dispatch pass
\* C23: in the win32 dispatch pass, whose cursors i and end are in iterators_,
\* a Remove of the dispatcher at index k decrements exactly the cursors that
\* are greater than k; the loop body runs only for dispatchers that were
\* registered when the pass began and were not removed since, at most once for
\* each, and when the pass is over it has run for every one of them.
C23_CursorsFollowRemove ==
  [][(platform = "win32" /\ iterators_ = <<"i", "end">>) =>
       /\ \A d \in Socks :
            (last'.op \in {"Close", "Create"} /\ last'.s = d
               /\ last'.fd # INVALID_SOCKET /\ d \in Range(dispatchers_)) =>
              LET k == IndexOf(dispatchers_, d) - 1 IN
              /\ i' = IF i > k THEN i - 1 ELSE i
              /\ end' = IF end > k THEN end - 1 ELSE end
       /\ \A d \in Disps :
            visited'[d] # visited[d] =>
              /\ visited'[d] = 1
              /\ d \in startReg \ removed
       /\ (pc = "dispatch" /\ pc' = "passend") =>
            \A d \in startReg \ removed : visited[d] = 1]_vars

C23_PassWithRemoval ==
  /\ platform = "win32"
  /\ pc = "passend"
  /\ \E A, B \in Socks :
       /\ A \in startReg /\ A \in removed
       /\ B \in startReg \ removed
       /\ visited[B] = 1 /\ pairs[B] = 1
       /\ pairs[A] = 1
       /\ B \in Range(dispatchers_)
       /\ dispatchers_[Len(dispatchers_)] = A

\* ------------------------------------------------------------------ the posix event mask
\* what a one-byte peek finds on descriptor fd once its error has been reaped:
\* nothing to read but the end of the stream, or no descriptor
PeekFindsClosed(fd) ==
  \/ ~IsOpen(os, fd)
  \/ fd # PipeFd /\ os[fd].k = SOCK_STREAM /\ os[fd].st = "conn"
       /\ os[fd].rx = 0 /\ os[fd].eof

\* C24: the posix loop body derives the mask of dispatchers_[i] as: in the
\* read set, ACCEPT if ACCEPT is requested, else CLOSE if SO_ERROR is not zero
\* or the descriptor is closed, else READ; in the write set, CONNECT or CLOSE
\* by SO_ERROR if CONNECT is requested, else WRITE; the mask is the union, and
\* with the empty mask nothing is called.
C24_MaskOfReadyDescriptor ==
  [][(platform = "posix" /\ pc = "dispatch" /\ visited' # visited) =>
       LET d == dispatchers_[i + 1]
           fd == GetDescriptor(World, d)
           req == GetRequestedEvents(World, d)
           err == IF fd \in SockFds /\ IsOpen(os, fd) THEN os[fd].err ELSE NOERR
           rff == IF fd \notin fdsRead THEN {}
                  ELSE IF DE_ACCEPT \in req THEN {DE_ACCEPT}
                  ELSE IF err # NOERR \/ PeekFindsClosed(fd) THEN {DE_CLOSE}
                  ELSE {DE_READ}
           wff == IF fd \notin fdsWrite THEN {}
                  ELSE IF DE_CONNECT \in req
                    THEN (IF err = NOERR THEN {DE_CONNECT} ELSE {DE_CLOSE})
                  ELSE {DE_WRITE}
           ff == rff \cup wff
       IN calls' = IF ff = {} THEN <<>>
                   ELSE <<<<d, "OnPreEvent", ff>>, <<d, "OnEvent", ff>>>>]_vars

C24_RefusedConnectIsClose ==
  /\ platform = "posix"
  /\ pc = "handler"
  /\ calls # <<>>
  /\ calls[2][1] \in Socks
  /\ calls[2][3] = {DE_CLOSE}
  /\ ev.err = ECONNREFUSED
  /\ sock[ev.d].state_ = CS_CLOSED

\* C25: when the connect signal of a socket dispatcher is emitted its state_
\* is CS_CONNECTED, whatever else the mask holds.
C25_ConnectedAtConnectSignal ==
  (pc = "handler" /\ sigs # <<>> /\ sigs[Len(sigs)][2] = DE_CONNECT)
    => sock[ev.d].state_ = CS_CONNECTED

C25_ConnectSignalWhileClosed ==
  /\ platform = "posix"
  /\ pc = "handler"
  /\ sigs # <<>>
  /\ sigs[Len(sigs)] = <<"SignalConnectEvent", DE_CONNECT>>
  /\ ev.ff = {DE_CONNECT, DE_CLOSE}
  /\ ev.err = NOERR
  /\ sock[ev.d].state_ = CS_CLOSED
  /\ os[sock[ev.d].s_].st = "conn"
  /\ os[sock[ev.d].s_].eof

\* ------------------------------------------------------------------ the close signal
\* C26: in every step that emits the close signal of a socket, from OnEvent,
\* from CheckSignalClose or from OnResolveResult, the socket's state_ is
\* CS_CLOSED.
C26_ClosedAtCloseSignal ==
  [][\A s \in Socks :
       closeCount'[s] > closeCount[s] => sock'[s].state_ = CS_CLOSED]_vars

C26_CloseSignalWhileConnecting ==
  /\ last.op = "OnResolveResult"
  /\ last.res # 0
  /\ resolvers[last.res].st = "done"
  /\ closeCount[last.s] = 1
  /\ sock[last.s].error_ = "-1"
  /\ sock[last.s].state_ = CS_CONNECTING
  /\ IsOpenSocket(last.s)

\* ------------------------------------------------------------------ re-arming
\* C27: a dispatcher that was registered during a dispatch pass gets no
\* OnPreEvent / OnEvent in that pass, also when its descriptor has the number of
\* one that was closed earlier in the pass.
C27_NoEventForNewcomer ==
  [][\A d \in Socks : pairs'[d] > pairs[d] => d \in startReg \ removed]_vars

C27_NewcomerOnReusedDescriptor ==
  /\ platform = "posix"
  /\ pc = "handler"
  /\ last = NoLast
  /\ ev.ctx = "dispatch"
  /\ ev.d \in removed
  /\ ev.d \in Range(dispatchers_)
  /\ visited[ev.d] = 1
  /\ pairs[ev.d] = 1
  /\ \E A \in Socks \ {ev.d} : pairs[A] = 1

\* C28: at every call of the posix select the read set holds exactly the
\* descriptors of the registered dispatchers that requested READ or ACCEPT in
\* the snapshot of this iteration, and the write set exactly those that
\* requested WRITE or CONNECT; no bit is left from an earlier pass.
C28_SetsAreTheSnapshot ==
  [][(platform = "posix" /\ pc = "top" /\ pc' = "select") =>
       /\ {fd \in fdsRead' : fd <= fdmax'} =
            {GetDescriptor(World, d) : d \in
               {x \in Polled : GetRequestedEvents(World, x) \cap {DE_READ, DE_ACCEPT} # {}}}
       /\ {fd \in fdsWrite' : fd <= fdmax'} =
            {GetDescriptor(World, d) : d \in
               {x \in Polled : GetRequestedEvents(World, x) \cap {DE_WRITE, DE_CONNECT} # {}}}]_vars

C28_BitOfRemovedDispatcher ==
  /\ platform = "posix"
  /\ pc = "select"
  /\ \E fd \in InWrite :
       /\ fd \notin {GetDescriptor(World, d) : d \in Range(dispatchers_)}
       /\ ~IsOpen(os, fd)

\* C29: whatever is called on a socket and delivered to it, enabled_events_
\* never holds DE_ACCEPT and DE_CONNECT together.
C29_AcceptExcludesConnect ==
  \A s \in Socks : ~({DE_ACCEPT, DE_CONNECT} \subseteq sock[s].enabled_events_)

C29_ListeningWhileConnecting ==
  /\ last.op = "Listen"
  /\ last.ret = 0
  /\ DE_CONNECT \in sock[last.s].enabled_events_
  /\ DE_ACCEPT \in sock[last.s].enabled_events_
  /\ os[sock[last.s].s_].st = "listen"

\* ------------------------------------------------------- the recorded close
\* the one-byte peek of descriptor fd returns a byte
PeekFindsData(fd) ==
  IsOpen(os, fd) /\ os[fd].err = NOERR /\ os[fd].st = "conn" /\ os[fd].rx > 0

\* C30: on win32 the close signal of a socket is emitted only by the arming
\* loop, for a socket with a recorded close (signal_close_) whose one-byte peek
\* finds no data; while the peek finds data the close stays recorded and the
\* socket is armed as usual; the emission clears the record, hands out the
\* recorded error, and the socket is not armed in that iteration.
C30_RecordedCloseWaitsForData ==
  [][platform = "win32" =>
       /\ (\E d \in Socks : closeCount'[d] > closeCount[d])
            => pc = "arm" /\ pc' = "handler" /\ ev'.ctx = "arm"
       /\ (pc = "arm" /\ i < Len(dispatchers_) /\ i' = i + 1 /\ process_io
             /\ dispatchers_[i + 1] \in Socks) =>
            LET d == dispatchers_[i + 1]
                fd == sock[d].s_
                emitted == pc' = "handler" /\ ev'.d = d /\ ev'.ctx = "arm"
                             /\ sigs' = <<<<"SignalCloseEvent", DE_CLOSE>>>>
            IN /\ emitted <=> (sock[d].signal_close_ /\ ~PeekFindsData(fd))
               /\ emitted =>
                    /\ ~sock'[d].signal_close_
                    /\ sock'[d].state_ = CS_CLOSED
                    /\ ev'.err = sock[d].signal_err_
                    /\ closeCount'[d] >= closeCount[d]
                    /\ os'[fd].sel = os[fd].sel
               /\ ~emitted =>
                    /\ sock'[d].signal_close_ = sock[d].signal_close_
                    /\ sock'[d].state_ = sock[d].state_
                    /\ closeCount' = closeCount
                    /\ pc' = "arm"
                    /\ os'[fd].sel = {DE_CLOSE} \cup sock[d].enabled_events_]_vars

\* the arming loop has just emitted the recorded close of a drained socket
C30_RecordedCloseEmitted ==
  /\ platform = "win32"
  /\ pc = "handler"
  /\ ev.ctx = "arm"
  /\ last = NoLast
  /\ sigs = <<<<"SignalCloseEvent", DE_CLOSE>>>>
  /\ closeCount[ev.d] = 1
  /\ sock[ev.d].state_ = CS_CLOSED
  /\ ~sock[ev.d].signal_close_
  /\ os[sock[ev.d].s_].fin
  /\ os[sock[ev.d].s_].rx = 0
  /\ DE_READ \in sock[ev.d].enabled_events_

C30_CloseWithheldWhileReadable ==
  /\ platform = "win32"
  /\ pc = "arm"
  /\ \E d \in Socks :
       /\ d \in Range(dispatchers_)
       /\ i >= IndexOf(dispatchers_, d)
       /\ sock[d].signal_close_
       /\ sock[d].state_ = CS_CONNECTED
       /\ closeCount[d] = 0
       /\ PeekFindsData(sock[d].s_)
       /\ os[sock[d].s_].sel = {DE_CLOSE} \cup sock[d].enabled_events_

\* ------------------------------------------------------------ posix signals
\* C22: after any sequence of SetPosixSignalHandler calls the signal
\* dispatcher exists exactly when handlers_ holds a handler of the application,
\* and it is in dispatchers_ (once) exactly when it exists.
C22_DispatcherIffHandlers ==
  /\ signal_dispatcher_ <=> handlers_ # {}
  /\ signal_dispatcher_ <=> PosixSignalDispatcher \in Range(dispatchers_)
  /\ Cardinality({k \in 1..Len(dispatchers_) : dispatchers_[k] = PosixSignalDispatcher}) <= 1

C22_LastHandlerRemoved ==
  /\ pc = "idle"
  /\ ~signal_dispatcher_
  /\ handlers_ = {}
  /\ PosixSignalDispatcher \in unreg
  /\ PosixSignalDispatcher \notin Range(dispatchers_)
  /\ \E sn \in Signums : received_signal_[sn]
  /\ \A sn \in Signums : ~sigact[sn]

\* C21: a signal that arrives with its flag clear while the application has a
\* handler for it gets that handler called by the loop thread, whatever the
\* order of the statements of the signal handler and of the loop, as long as
\* Wait(kForever, true) keeps being called and the handler stays set.
C21_HandlerEventuallyInvoked ==
  \A sn \in Signums : (sn \in pending) ~> (sn \notin pending)

C21_InvokedBeforeTheByte ==
  /\ pc = "scan"
  /\ invoked \in Signums
  /\ invoked \in handlers_
  /\ invoked \notin pending
  /\ hpc[invoked] = 1
  /\ ~received_signal_[invoked]
  /\ sigpipe = 0

\* C31: whenever the loop is in select with the signal dispatcher registered,
\* a flag that is set in received_signal_ comes with an unread byte in the
\* pipe of the signal handler, or with a running signal handler that has set
\* its flag and has its write still to do.
C31_FlagComesWithByte ==
  (pc = "select" /\ PosixSignalDispatcher \in Range(dispatchers_)
     /\ \E sn \in Signums : received_signal_[sn])
    => (sigpipe > 0 \/ \E sn \in Signums : hpc[sn] = 1)

C31_ByteStillToBeWritten ==
  /\ pc = "select"
  /\ PosixSignalDispatcher \in Range(dispatchers_)
  /\ SignalFd \in fdsRead
  /\ sigpipe = 0
  /\ \E sn \in Signums : received_signal_[sn] /\ sn \in pending /\ hpc[sn] = 1
  /\ visited[PosixSignalDispatcher] = 0

\* ------------------------------------------------------------------ the wakeup pipe
\* C32: on posix, however the Signal calls of other threads fall between the
\* steps of the loop, the wakeup pipe holds at most one unread byte and
\* fSignaled_ is true exactly when it holds one; a Signal made while fSignaled_
\* is set writes nothing.
C32_OneByteWhenSignaled ==
  platform = "posix" => (pipe_ <= 1 /\ (fSignaled_ <=> pipe_ = 1))

C32_SignaledAgainAfterDrain ==
  /\ platform = "posix"
  /\ pc = "dispatch"
  /\ visited[signal_wakeup_] = 1
  /\ pairs[signal_wakeup_] = 1
  /\ ~fWait_
  /\ woke
  /\ fSignaled_
  /\ pipe_ = 1

\* ------------------------------------------------------------------ WakeUp between Waits
\* WakeUp at any time, between Waits too, and Waits with and without a
\* deadline and with and without process_io; datagram sockets are created and
\* closed between Waits and in handlers
NextWake ==
  \/ \E cms \in {"forever", "finite"}, pio \in BOOLEAN : WaitBegin(cms, pio)
  \/ WaitStep
  \/ SelectInterrupted
  \/ SelectTimeout
  \/ WaitTimeout
  \/ Tick
  \/ WakeUp
  \/ \E s \in Socks : AppCreate(s, SOCK_DGRAM)
  \/ \E s \in Socks : AppClose(s)

SpecWake == Init /\ [][NextWake]_vars

NextLife ==
  \/ WaitBegin("forever", TRUE)
  \/ WaitLoop
  \/ WakeBlocked
  \/ \E s \in StreamSocks : AppCreate(s, SOCK_STREAM)
  \/ \E s \in StreamSocks : pc = "idle" /\ AppListen(s)
  \/ \E s \in StreamSocks : pc = "idle" /\ AppAccept(s)
  \/ \E s \in StreamSocks : pc = "idle" /\ AppConnect(s, "unresolved")
  \/ \E r \in Res, reserr \in {NOERR, "EAI_NONAME"} : ResolveDone(r, reserr, "inprogress")
  \/ \E s \in Socks : AppClose(s)
  \/ \E s \in Socks : AppDelete(s)
  \/ \E fd \in SockFds : PeerConnect(fd)
  \/ \E fd \in SockFds : PeerClose(fd)
  \/ \E fd \in SockFds : NetRefused(fd)

SpecLife == Init /\ [][NextLife]_vars

\* C34: a socket dispatcher is in the registry exactly when it has a
\* descriptor (s_ is not INVALID_SOCKET), in every state between two public
\* operations: after Create and WrapSocket, after Close, delete, a second
\* Create and a failed name resolution, and after the loop has signalled a
\* close, which leaves both the descriptor and the registration.
C34_RegisteredIffOpen ==
  \A s \in Socks : s \in Range(dispatchers_) <=> sock[s].s_ # INVALID_SOCKET

C34_AcceptedSocketAfterCloseEvent ==
  /\ pc = "idle"
  /\ closeCount[2] = 1
  /\ 2 \in Range(dispatchers_) /\ sock[2].s_ # INVALID_SOCKET
  /\ 1 \notin Range(dispatchers_) /\ sock[1].s_ = INVALID_SOCKET
  /\ unreg = {1}

====
